---- MODULE Spec2Model ----
(***************************************************************************)
(* A model of the gorilla/css tokenizer (CSS Syntax Level 3), its input    *)
(* normalizer, its token renderer and the round-trip harness Fuzz.         *)
(*                                                                         *)
(* Bytes are the integers 0..255, strings are sequences of bytes.  The     *)
(* bufio.Reader over the normalized input is the pair (stream, pos); the   *)
(* Tokenizer's fields are the record z.  Every consumer of the tokenizer   *)
(* is an operator from (stream, z) to the new z and what the Go function   *)
(* returns; loops are RECURSIVE operators that carry the loop variables.   *)
(***************************************************************************)
EXTENDS Integers, Sequences, FiniteSets, TLC

(***************************************************************************)
(* Byte values of the character literals the source uses.                  *)
(***************************************************************************)
chTAB == 9
chLF == 10
chCR == 13
chSPACE == 32
chBANG == 33
chDQUOTE == 34
chHASH == 35
chDOLLAR == 36
chPERCENT == 37
chSQUOTE == 39
chLPAREN == 40
chRPAREN == 41
chSTAR == 42
chPLUS == 43
chCOMMA == 44
chMINUS == 45
chDOT == 46
chSLASH == 47
chZERO == 48
chNINE == 57
chCOLON == 58
chSEMI == 59
chLT == 60
chEQ == 61
chGT == 62
chQMARK == 63
chAT == 64
chUpperA == 65
chUpperE == 69
chUpperF == 70
chUpperU == 85
chUpperZ == 90
chLBRACKET == 91
chBACKSLASH == 92
chRBRACKET == 93
chCARET == 94
chUNDERSCORE == 95
chLowerA == 97
chLowerE == 101
chLowerF == 102
chLowerL == 108
chLowerR == 114
chLowerU == 117
chLowerZ == 122
chLBRACE == 123
chPIPE == 124
chRBRACE == 125
chTILDE == 126
chDEL == 127

\* utf8.RuneSelf, utf8.RuneError, utf8.MaxRune
RuneSelf == 128
RuneError == 65533
MaxRune == 1114111

Min(a, b) == IF a < b THEN a ELSE b

\* s[i] with 0 beyond the end (Go: the zero fill of repeek; 1-based index)
At(s, i) == IF i >= 1 /\ i <= Len(s) THEN s[i] ELSE 0

\* s[from:] (1-based from)
Drop(s, n) == SubSeq(s, n + 1, Len(s))

(***************************************************************************)
(* crlf.go: the whole-stream effect of normalize.Transform when the        *)
(* destination never runs short: CR -> LF, an LF right after a CR is       *)
(* dropped, NUL -> EF BF BD, every other byte is copied.                   *)
(***************************************************************************)
replacementCharacter == <<239, 191, 189>>

RECURSIVE TransformAll(_, _, _)
TransformAll(src, nSrc, prev) ==
    IF nSrc > Len(src) THEN <<>>
    ELSE LET c == src[nSrc] IN
         IF c = chCR THEN <<chLF>> \o TransformAll(src, nSrc + 1, c)
         ELSE IF c = chLF THEN
              IF prev = chCR THEN TransformAll(src, nSrc + 1, c)
              ELSE <<chLF>> \o TransformAll(src, nSrc + 1, c)
         ELSE IF c = 0 THEN replacementCharacter \o TransformAll(src, nSrc + 1, c)
         ELSE <<c>> \o TransformAll(src, nSrc + 1, c)

\* NewTokenizer: the bytes bufio.Reader serves for the source bytes b
Normalized(b) == TransformAll(b, 1, 0)

\* one call of normalize.Transform on a destination of dstLen bytes: the
\* loop of lines 25-51 from nDst, nSrc (0-based) with out = dst[:nDst], and
\* what the call returns
RECURSIVE Transform_loop(_, _, _, _, _, _)
Transform_loop(prev, dstLen, src, nDst, nSrc, out) ==
    IF nDst < dstLen /\ nSrc < Len(src) THEN
        LET c == src[nSrc + 1] IN
        IF c = chCR THEN
            Transform_loop(c, dstLen, src, nDst + 1, nSrc + 1, Append(out, chLF))
        ELSE IF c = chLF THEN
            IF prev = chCR THEN Transform_loop(c, dstLen, src, nDst, nSrc + 1, out)
            ELSE Transform_loop(c, dstLen, src, nDst + 1, nSrc + 1, Append(out, chLF))
        ELSE IF c = 0 THEN
            IF nDst + 3 >= dstLen
            THEN [prev |-> prev, out |-> out, nDst |-> nDst, nSrc |-> nSrc,
                  err |-> "ErrShortDst"]
            ELSE Transform_loop(c, dstLen, src, nDst + 3, nSrc + 1,
                                out \o replacementCharacter)
        ELSE Transform_loop(c, dstLen, src, nDst + 1, nSrc + 1, Append(out, c))
    ELSE [prev |-> prev, out |-> out, nDst |-> nDst, nSrc |-> nSrc,
          err |-> IF nSrc < Len(src) THEN "ErrShortDst" ELSE "nil"]

\* a variant that forgets the last byte of the call before
Transform_noprev(prev, dstLen, src) == Transform_loop(0, dstLen, src, 0, 0, <<>>)

Transform(prev, dstLen, src) == Transform_loop(prev, dstLen, src, 0, 0, <<>>)

(***************************************************************************)
(* Classification helpers (tokenizer, §4.3.8 - §4.3.10).                   *)
(***************************************************************************)
\* a variant in which a backslash before the end of the input is no escape
isValidEscape_eof(p) ==
    IF Len(p) < 2 THEN FALSE
    ELSE IF p[1] # chBACKSLASH THEN FALSE
    ELSE IF p[2] = chLF \/ p[2] = 0 THEN FALSE
    ELSE TRUE

isValidEscape(p) ==
    IF Len(p) < 2 THEN FALSE
    ELSE IF p[1] # chBACKSLASH THEN FALSE
    ELSE IF p[2] = chLF THEN FALSE
    ELSE TRUE

isNameStart(p) ==
    \/ p >= RuneSelf
    \/ p = chUNDERSCORE
    \/ (p >= chUpperA /\ p <= chUpperZ)
    \/ (p >= chLowerA /\ p <= chLowerZ)

isNameCode(p) ==
    \/ p >= RuneSelf
    \/ p = chUNDERSCORE \/ p = chMINUS
    \/ (p >= chUpperA /\ p <= chUpperZ)
    \/ (p >= chLowerA /\ p <= chLowerZ)
    \/ (p >= chZERO /\ p <= chNINE)

isHexDigit(p) ==
    \/ (p >= chUpperA /\ p <= chUpperF)
    \/ (p >= chLowerA /\ p <= chLowerF)
    \/ (p >= chZERO /\ p <= chNINE)

isDigit(p) == chZERO <= p /\ p <= chNINE

isStartIdentifier(p) ==
    LET q == IF p[1] = chMINUS THEN Tail(p) ELSE p IN
    IF isNameStart(q[1]) THEN TRUE
    ELSE IF isValidEscape(q) THEN TRUE
    ELSE FALSE

isStartNumber(p) ==
    LET q == IF p[1] = chPLUS \/ p[1] = chMINUS THEN Tail(p) ELSE p
        r == IF q[1] = chDOT THEN Tail(q) ELSE q
    IN isDigit(r[1])

isNonPrintable(by) ==
    \/ (0 <= by /\ by <= 8)
    \/ by = 11
    \/ (14 <= by /\ by <= 31)
    \/ by = chDEL

isWhitespace(r) == r = chSPACE \/ r = chTAB \/ r = chLF

isNotWhitespace(r) == ~isWhitespace(r)

(***************************************************************************)
(* Go library functions the tokenizer calls.                               *)
(***************************************************************************)
\* utf8.EncodeRune: the UTF-8 bytes of r (surrogates and out-of-range
\* values are encoded as U+FFFD)
EncodeRune(r) ==
    IF r <= 127 THEN <<r>>
    ELSE IF r <= 2047 THEN <<192 + (r \div 64), 128 + (r % 64)>>
    ELSE IF r > MaxRune \/ (55296 <= r /\ r <= 57343) THEN replacementCharacter
    ELSE IF r <= 65535 THEN
        <<224 + (r \div 4096), 128 + ((r \div 64) % 64), 128 + (r % 64)>>
    ELSE <<240 + (r \div 262144), 128 + ((r \div 4096) % 64),
           128 + ((r \div 64) % 64), 128 + (r % 64)>>

\* utf8.DecodeRune on the bytes p (non-empty): the rune and its width;
\* an invalid or truncated encoding is RuneError of width 1
DecodeRune(p) ==
    LET p0 == p[1]
        n == Len(p)
        bad == [ru |-> RuneError, size |-> 1]
        sz == IF p0 < 128 THEN 1
              ELSE IF p0 < 194 THEN 0
              ELSE IF p0 < 224 THEN 2
              ELSE IF p0 < 240 THEN 3
              ELSE IF p0 < 245 THEN 4
              ELSE 0
        lo == IF p0 = 224 THEN 160 ELSE IF p0 = 240 THEN 144 ELSE 128
        hi == IF p0 = 237 THEN 159 ELSE IF p0 = 244 THEN 143 ELSE 191
        cont(x) == 128 <= x /\ x <= 191
    IN IF sz = 1 THEN [ru |-> p0, size |-> 1]
       ELSE IF sz = 0 \/ n < sz THEN bad
       ELSE IF p[2] < lo \/ hi < p[2] THEN bad
       ELSE IF sz = 2 THEN [ru |-> (p0 % 32) * 64 + (p[2] % 64), size |-> 2]
       ELSE IF ~cont(p[3]) THEN bad
       ELSE IF sz = 3 THEN
            [ru |-> (p0 % 16) * 4096 + (p[2] % 64) * 64 + (p[3] % 64), size |-> 3]
       ELSE IF ~cont(p[4]) THEN bad
       ELSE [ru |-> (p0 % 8) * 262144 + (p[2] % 64) * 4096
                    + (p[3] % 64) * 64 + (p[4] % 64), size |-> 4]

\* the value of one hex digit
HexVal(c) ==
    IF isDigit(c) THEN c - chZERO
    ELSE IF c >= chLowerA THEN c - chLowerA + 10
    ELSE c - chUpperA + 10

RECURSIVE HexNum(_, _)
HexNum(digits, acc) ==
    IF digits = <<>> THEN acc
    ELSE HexNum(Tail(digits), acc * 16 + HexVal(Head(digits)))

\* strconv.ParseInt(string(digits), 16, 32): fails on the empty string, on
\* a byte that is no hex digit and on a value that does not fit in int32
ParseInt(digits) ==
    LET wellFormed == Len(digits) >= 1
                      /\ \A k \in 1..Len(digits) : isHexDigit(digits[k])
        val == IF wellFormed THEN HexNum(digits, 0) ELSE 0
    IN [ok |-> wellFormed /\ val <= 2147483647, val |-> val]

\* one uppercase hex digit
HexDigitUpper(d) == IF d < 10 THEN chZERO + d ELSE chUpperA + (d - 10)

\* fmt "%X": uppercase hex without padding
RECURSIVE FormatX(_)
FormatX(n) ==
    IF n < 16 THEN <<HexDigitUpper(n)>>
    ELSE Append(FormatX(n \div 16), HexDigitUpper(n % 16))

\* fmt "%04X": uppercase hex, zero-padded to at least 4 digits
Format04X(n) ==
    LET x == FormatX(n) IN
    IF Len(x) >= 4 THEN x
    ELSE [k \in 1..(4 - Len(x)) |-> chZERO] \o x

(***************************************************************************)
(* Tokens (token.go).  Extra is NoExtra (nil) or one of the four           *)
(* Token*Extra records.                                                    *)
(***************************************************************************)
NoExtra == [kind |-> "nil"]
TokenExtraHash(isIdentifier) == [kind |-> "hash", IsIdentifier |-> isIdentifier]
TokenExtraNumeric(nonInteger, dimension) ==
    [kind |-> "numeric", NonInteger |-> nonInteger, Dimension |-> dimension]
TokenExtraUnicodeRange(start, end) ==
    [kind |-> "unicoderange", Start |-> start, End |-> end]
TokenExtraError(err) == [kind |-> "error", Err |-> err]

Token(type, value, extra) == [Type |-> type, Value |-> value, Extra |-> extra]

\* the zero Token: Type 0 is TokenError
ZeroToken == Token("Error", <<>>, NoExtra)

\* TokenType.StopToken
StopToken(t) == t \in {"Error", "EOF", "BadEscape", "BadString", "BadURI"}

\* TokenExtraTypeLookup: the Extra kind a token type should carry
TokenExtraTypeLookup(t) ==
    IF t \in {"Error", "BadEscape", "BadString", "BadURI"} THEN "error"
    ELSE IF t = "Hash" THEN "hash"
    ELSE IF t \in {"Number", "Percentage", "Dimension"} THEN "numeric"
    ELSE IF t = "UnicodeRange" THEN "unicoderange"
    ELSE "nil"

\* TokenExtraUnicodeRange.String
UnicodeRangeString(e) ==
    IF e.Start = e.End THEN <<chUpperU, chPLUS>> \o Format04X(e.Start)
    ELSE <<chUpperU, chPLUS>> \o Format04X(e.Start) \o <<chMINUS>> \o Format04X(e.End)

\* premadeTokens
premadeTokens(ch) ==
    IF ch = chDOLLAR THEN Token("SuffixMatch", <<chDOLLAR, chEQ>>, NoExtra)
    ELSE IF ch = chSTAR THEN Token("SubstringMatch", <<chSTAR, chEQ>>, NoExtra)
    ELSE IF ch = chCARET THEN Token("PrefixMatch", <<chCARET, chEQ>>, NoExtra)
    ELSE IF ch = chTILDE THEN Token("Includes", <<chTILDE, chEQ>>, NoExtra)
    ELSE IF ch = chLPAREN THEN Token("OpenParen", <<ch>>, NoExtra)
    ELSE IF ch = chRPAREN THEN Token("CloseParen", <<ch>>, NoExtra)
    ELSE IF ch = chLBRACKET THEN Token("OpenBracket", <<ch>>, NoExtra)
    ELSE IF ch = chRBRACKET THEN Token("CloseBracket", <<ch>>, NoExtra)
    ELSE IF ch = chLBRACE THEN Token("OpenBrace", <<ch>>, NoExtra)
    ELSE IF ch = chRBRACE THEN Token("CloseBrace", <<ch>>, NoExtra)
    ELSE IF ch = chCOLON THEN Token("Colon", <<ch>>, NoExtra)
    ELSE IF ch = chSEMI THEN Token("Semicolon", <<ch>>, NoExtra)
    ELSE IF ch = chCOMMA THEN Token("Comma", <<ch>>, NoExtra)
    ELSE IF ch = chBACKSLASH THEN Token("BadEscape", <<chBACKSLASH>>, NoExtra)
    ELSE IF ch = chUpperA THEN Token("DashMatch", <<chPIPE, chEQ>>, NoExtra)
    ELSE IF ch = 66 THEN Token("Column", <<chPIPE, chPIPE>>, NoExtra)
    ELSE IF ch = 67 THEN Token("CDC", <<chMINUS, chMINUS, chGT>>, NoExtra)
    ELSE IF ch = 79 THEN Token("CDO", <<chLT, chBANG, chMINUS, chMINUS>>, NoExtra)
    ELSE Token("EOF", <<>>, NoExtra)

(***************************************************************************)
(* The Tokenizer's fields: z.pos and z.last are the bufio.Reader z.r (the  *)
(* 1-based index of the next byte it serves and whether UnreadByte may     *)
(* succeed), z.err is "nil", "EOF" or the error of the source, z.peek the   *)
(* 3-byte window.  z.srcErr is what z.r returns once the bytes of the      *)
(* source are served: "EOF", or the error the source failed with.  A       *)
(* panic(err) unwinds to the deferred function of Scan, which sets z.err;  *)
(* the model sets z.err where the panic is raised, and with z.err set no   *)
(* operation of the reader has an effect any more.                         *)
(***************************************************************************)
NewTokenizer ==
    [pos |-> 1, last |-> FALSE, err |-> "nil", peek |-> <<0, 0, 0>>, srcErr |-> "EOF"]

\* z is unwinding from a panic(err)
Panicking(z) == z.err \notin {"nil", "EOF"}

\* Tokenizer.nextByte: the next byte, 0 at end of input (which is sticky)
nextByte(s, z) ==
    IF z.err = "EOF" \/ Panicking(z) THEN [z |-> z, by |-> 0]
    ELSE IF z.pos > Len(s) THEN [z |-> [z EXCEPT !.err = z.srcErr], by |-> 0]
    ELSE [z |-> [z EXCEPT !.pos = @ + 1, !.last = TRUE], by |-> s[z.pos]]

\* Tokenizer.unreadByte: bufio's UnreadByte succeeds only right after a read
unreadByte(z) ==
    IF z.err = "EOF" \/ Panicking(z) THEN z
    ELSE IF z.last THEN [z EXCEPT !.pos = @ - 1, !.last = FALSE]
    ELSE z

\* a variant that keeps the window of an earlier call
repeek_stale(s, z) ==
    IF z.peek # <<0, 0, 0>> THEN [z EXCEPT !.last = FALSE]
    ELSE [z EXCEPT !.peek = <<At(s, z.pos), At(s, z.pos + 1), At(s, z.pos + 2)>>,
                   !.last = FALSE]

\* Tokenizer.repeek: Peek(3), zero filled at end of input; Peek reports
\* the error of the source when fewer than 3 bytes are left
repeek(s, z) ==
    IF Panicking(z) THEN z
    ELSE IF z.pos + 2 > Len(s) /\ z.srcErr # "EOF" THEN [z EXCEPT !.err = z.srcErr]
    ELSE [z EXCEPT !.peek = <<At(s, z.pos), At(s, z.pos + 1), At(s, z.pos + 2)>>,
                   !.last = FALSE]

\* z.r.Discard(n)
Discard(s, z, n) ==
    IF Panicking(z) THEN z
    ELSE [z EXCEPT !.pos = Min(@ + n, Len(s) + 1), !.last = FALSE]

\* z.r.ReadRune()
ReadRune(s, z) ==
    LET d == DecodeRune(Drop(s, z.pos - 1)) IN
    [z |-> [z EXCEPT !.pos = @ + d.size, !.last = TRUE], ru |-> d.ru]

nextIsEscape(z) == isValidEscape(SubSeq(z.peek, 1, 2))

nextStartsIdentifier(z) == isStartIdentifier(z.peek)

nextIsNumber(z) == isStartNumber(z.peek)

nextCompare(z, vs) == SubSeq(z.peek, 1, Len(vs)) = vs

(***************************************************************************)
(* §4.3.7 consumeEscapedCP, called after the backslash.                    *)
(***************************************************************************)
RECURSIVE consumeEscapedCP_loop(_, _, _)
consumeEscapedCP_loop(s, z, digits) ==
    LET n == nextByte(s, z) IN
    IF Len(digits) < 6 /\ isHexDigit(n.by)
    THEN consumeEscapedCP_loop(s, n.z, Append(digits, n.by))
    ELSE [z |-> n.z, by |-> n.by, digits |-> digits]

\* a variant that gives back the whitespace after the hex digits too
consumeEscapedCP_keepspace(s, z) ==
    LET n == nextByte(s, z)
        codepoint(cpi) ==
            IF ~cpi.ok \/ cpi.val = 0 \/ cpi.val > MaxRune THEN RuneError ELSE cpi.val
        hex(l) ==
            [z |-> IF l.by # 0 THEN unreadByte(l.z) ELSE l.z,
             cp |-> codepoint(ParseInt(l.digits))]
        rune(r) == [z |-> r.z, cp |-> r.ru]
    IN IF n.by = 0 THEN [z |-> n.z, cp |-> RuneError]
       ELSE IF isHexDigit(n.by) THEN hex(consumeEscapedCP_loop(s, n.z, <<n.by>>))
       ELSE rune(ReadRune(s, unreadByte(n.z)))

consumeEscapedCP(s, z) ==
    LET n == nextByte(s, z)
        \* lines 797-801: the code point ParseInt returned, or the replacement
        codepoint(cpi) ==
            IF ~cpi.ok \/ cpi.val = 0 \/ cpi.val > MaxRune THEN RuneError ELSE cpi.val
        \* lines 792-801: after the loop over the hex digits
        hex(l) ==
            [z |-> IF isNotWhitespace(l.by) /\ l.by # 0 THEN unreadByte(l.z) ELSE l.z,
             cp |-> codepoint(ParseInt(l.digits))]
        \* lines 803-813: any other character stands for itself
        rune(r) == [z |-> r.z, cp |-> r.ru]
    IN IF n.by = 0 THEN [z |-> n.z, cp |-> RuneError]
       ELSE IF isHexDigit(n.by) THEN hex(consumeEscapedCP_loop(s, n.z, <<n.by>>))
       ELSE rune(ReadRune(s, unreadByte(n.z)))

(***************************************************************************)
(* §4.3.11 consumeName                                                     *)
(***************************************************************************)
RECURSIVE consumeName_loop(_, _, _)
consumeName_loop(s, z, frag) ==
    LET n == nextByte(s, z)
        zp == repeek(s, unreadByte(n.z))
        \* lines 828-831: the escaped code point e is appended
        escaped(e) == consumeName_loop(s, e.z, frag \o EncodeRune(e.cp))
    IN IF n.by = chBACKSLASH THEN
           IF nextIsEscape(zp)
           THEN escaped(consumeEscapedCP(s, nextByte(s, zp).z))
           ELSE [z |-> zp, str |-> frag]
       ELSE IF isNameCode(n.by) THEN consumeName_loop(s, n.z, Append(frag, n.by))
       ELSE [z |-> unreadByte(n.z), str |-> frag]

consumeName(s, z) == consumeName_loop(s, z, <<>>)

(***************************************************************************)
(* §4.3.12 consumeNumericInner                                             *)
(***************************************************************************)
\* the closure consumeDigits: by is the byte read last
RECURSIVE consumeDigits(_, _, _, _)
consumeDigits(s, z, by, repr) ==
    IF isDigit(by) THEN
        LET n == nextByte(s, z) IN consumeDigits(s, n.z, n.by, Append(repr, by))
    ELSE [z |-> IF by # 0 THEN unreadByte(z) ELSE z, repr |-> repr]

\* lines 876-890: the exponent; z.peek is fresh
consumeNumericInner_exp(s, z, repr, notInteger) ==
    LET n == IF z.peek[1] = chLowerE \/ z.peek[1] = chUpperE THEN
                 IF (z.peek[2] = chPLUS \/ z.peek[2] = chMINUS) /\ isDigit(z.peek[3])
                 THEN 3
                 ELSE IF isDigit(z.peek[2]) THEN 2
                 ELSE 0
             ELSE 0
        x == nextByte(s, Discard(s, z, n))
        exponent(d) == [z |-> d.z, repr |-> d.repr, notInteger |-> TRUE]
    IN IF n # 0
       THEN exponent(consumeDigits(s, x.z, x.by, repr \o SubSeq(z.peek, 1, n)))
       ELSE [z |-> z, repr |-> repr, notInteger |-> notInteger]

\* line 873: after the digits d of the fraction
consumeNumericInner_fraction(s, d) ==
    consumeNumericInner_exp(s, repeek(s, d.z), d.repr, TRUE)

\* a variant that takes the '.' whatever follows it
consumeNumericInner_frac_nodigit(s, z, repr) ==
    LET dot == nextByte(s, z)
        f == nextByte(s, dot.z)
    IN IF z.peek[1] = chDOT
       THEN consumeNumericInner_fraction(
                s, consumeDigits(s, f.z, f.by, Append(repr, dot.by)))
       ELSE consumeNumericInner_exp(s, z, repr, FALSE)

\* lines 866-874: the fraction; z.peek is fresh
consumeNumericInner_frac(s, z, repr) ==
    LET dot == nextByte(s, z)
        f == nextByte(s, dot.z)
    IN IF z.peek[1] = chDOT /\ isDigit(z.peek[2])
       THEN consumeNumericInner_fraction(
                s, consumeDigits(s, f.z, f.by, Append(repr, dot.by)))
       ELSE consumeNumericInner_exp(s, z, repr, FALSE)

\* lines 864-865: after the digits d of the integer part
consumeNumericInner_integer(s, d) == consumeNumericInner_frac(s, repeek(s, d.z), d.repr)

consumeNumericInner(s, z) ==
    LET n0 == nextByte(s, z)
        n1 == nextByte(s, n0.z)
    IN consumeNumericInner_integer(
           s, IF n0.by = chPLUS \/ n0.by = chMINUS
              THEN consumeDigits(s, n1.z, n1.by, <<n0.by>>)
              ELSE consumeDigits(s, n0.z, n0.by, <<>>))

\* a variant that reads a unit whatever follows the number
consumeNumeric_unit_always(s, r, zp) ==
    LET dimension(nm) ==
            [z |-> nm.z,
             tok |-> Token("Dimension", r.repr, TokenExtraNumeric(r.notInteger, nm.str))]
    IN dimension(consumeName(s, zp))

\* lines 480-488: what follows the number r; zp.peek is fresh
consumeNumeric_unit(s, r, zp) ==
    LET dimension(nm) ==
            [z |-> nm.z,
             tok |-> Token("Dimension", r.repr, TokenExtraNumeric(r.notInteger, nm.str))]
    IN IF nextStartsIdentifier(zp) THEN dimension(consumeName(s, zp))
       ELSE IF zp.peek[1] = chPERCENT THEN
           [z |-> Discard(s, zp, 1),
            tok |-> Token("Percentage", r.repr, TokenExtraNumeric(r.notInteger, <<>>))]
       ELSE [z |-> zp,
             tok |-> Token("Number", r.repr, TokenExtraNumeric(r.notInteger, <<>>))]

consumeNumeric_inner(s, r) == consumeNumeric_unit(s, r, repeek(s, r.z))

\* §4.3.2 consumeNumeric
consumeNumeric(s, z) == consumeNumeric_inner(s, consumeNumericInner(s, z))

(***************************************************************************)
(* consumeWhitespace: Peek/Discard in chunks of wsBufSize bytes.           *)
(***************************************************************************)
wsBufSize == 32

\* bytes.IndexFunc(buf, isNotWhitespace): 0-based, -1 when there is none
IndexNotWhitespace(buf) ==
    IF \E k \in 1..Len(buf) : isNotWhitespace(buf[k])
    THEN (CHOOSE k \in 1..Len(buf) :
              /\ isNotWhitespace(buf[k])
              /\ \A j \in 1..(k - 1) : isWhitespace(buf[j])) - 1
    ELSE -1

RECURSIVE consumeWhitespace_loop(_, _, _, _)
consumeWhitespace_loop(s, z, ch, sawNewline) ==
    LET buf == SubSeq(s, z.pos, Min(z.pos + wsBufSize - 1, Len(s)))
        zp == [z EXCEPT !.last = FALSE]
        i0 == IndexNotWhitespace(buf)
        idx == IF i0 = -1 THEN Len(buf) ELSE i0
        nl == ch # 0 /\ \E k \in 1..idx : buf[k] = chLF
    IN IF Panicking(z) THEN [z |-> z, sawNewline |-> sawNewline]
       ELSE IF Len(buf) < wsBufSize /\ z.srcErr # "EOF"
       THEN [z |-> [z EXCEPT !.err = z.srcErr], sawNewline |-> sawNewline]
       ELSE IF Len(buf) = 0 THEN [z |-> zp, sawNewline |-> sawNewline]
       ELSE IF i0 = 0 THEN [z |-> zp, sawNewline |-> sawNewline]
       ELSE consumeWhitespace_loop(s, Discard(s, zp, idx), ch, sawNewline \/ nl)

\* a variant that looks at one chunk only
consumeWhitespace_once(s, z, ch) ==
    LET buf == SubSeq(s, z.pos, Min(z.pos + wsBufSize - 1, Len(s)))
        i0 == IndexNotWhitespace(buf)
        idx == IF i0 = -1 THEN Len(buf) ELSE i0
        nl == ch = chLF \/ \E k \in 1..idx : buf[k] = chLF
    IN [z |-> Discard(s, z, idx),
        tok |-> IF nl THEN Token("S", <<chLF>>, NoExtra)
                ELSE Token("S", <<chSPACE>>, NoExtra)]

consumeWhitespace(s, z, ch) ==
    LET token(r) ==
            [z |-> r.z,
             tok |-> IF r.sawNewline THEN Token("S", <<chLF>>, NoExtra)
                     ELSE Token("S", <<chSPACE>>, NoExtra)]
    IN token(consumeWhitespace_loop(s, z, ch, ch = chLF))

(***************************************************************************)
(* ParseError values.  Message is the format text and its argument (0      *)
(* when the message has none).                                             *)
(***************************************************************************)
ParseError(type, text, arg) == [Type |-> type, Message |-> [text |-> text, arg |-> arg]]

(***************************************************************************)
(* §4.3.4 consumeString                                                    *)
(***************************************************************************)
RECURSIVE consumeString_loop(_, _, _, _)
consumeString_loop(s, z, delim, frag) ==
    LET n == nextByte(s, z)
        zp == repeek(s, unreadByte(n.z))
        \* lines 548-551: the escaped code point e is appended
        escaped(e) == consumeString_loop(s, e.z, delim, frag \o EncodeRune(e.cp))
    IN IF n.by = delim \/ n.by = 0 THEN
           [z |-> n.z, tok |-> Token("String", frag, NoExtra)]
       ELSE IF n.by = chLF THEN
           [z |-> unreadByte(n.z),
            tok |-> Token("BadString", frag,
                          TokenExtraError(ParseError("BadString", "unterminated string", 0)))]
       ELSE IF n.by = chBACKSLASH THEN
           IF zp.peek[2] = 0 THEN
               consumeString_loop(s, nextByte(s, zp).z, delim, frag)
           ELSE IF zp.peek[2] = chLF THEN
               consumeString_loop(s, nextByte(s, nextByte(s, zp).z).z, delim, frag)
           ELSE escaped(consumeEscapedCP(s, nextByte(s, zp).z))
       ELSE consumeString_loop(s, n.z, delim, Append(frag, n.by))

\* a variant in which a string that the end of the input ends is a BadString
consumeString_eof(s, z, delim) ==
    LET bad(r) == IF r.tok.Type = "String" /\ r.z.err = "EOF"
                  THEN [r EXCEPT !.tok.Type = "BadString"]
                  ELSE r
    IN bad(consumeString_loop(s, z, delim, <<>>))

consumeString(s, z, delim) == consumeString_loop(s, z, delim, <<>>)

(***************************************************************************)
(* §4.3.14 consumeBadURL                                                   *)
(***************************************************************************)
RECURSIVE consumeBadURL_loop(_, _, _)
consumeBadURL_loop(s, z, frag) ==
    LET n == nextByte(s, z)
        zp == repeek(s, unreadByte(n.z))
        \* lines 909-912: the escaped code point e is appended
        escaped(e) == consumeBadURL_loop(s, e.z, frag \o EncodeRune(e.cp))
    IN IF n.by = chRPAREN \/ n.by = 0 THEN [z |-> n.z, str |-> frag]
       ELSE IF n.by = chBACKSLASH THEN
           IF nextIsEscape(zp)
           THEN escaped(consumeEscapedCP(s, nextByte(s, zp).z))
           ELSE consumeBadURL_loop(s, nextByte(s, zp).z, Append(frag, n.by))
       ELSE consumeBadURL_loop(s, n.z, Append(frag, n.by))

consumeBadURL(s, z) == consumeBadURL_loop(s, z, <<>>)

(***************************************************************************)
(* §4.3.5 consumeURL, called after "url("                                  *)
(***************************************************************************)
\* a variant that stores the parse error in z.err
BadURIToken_seterr(frag, bad, text, arg) ==
    [z |-> [bad.z EXCEPT !.err = "BadURI"],
     tok |-> Token("BadURI", frag \o bad.str,
                   TokenExtraError(ParseError("BadURI", text, arg)))]

\* a BadURI whose Value is frag and the rest bad that consumeBadURL read
BadURIToken(frag, bad, text, arg) ==
    [z |-> bad.z,
     tok |-> Token("BadURI", frag \o bad.str,
                   TokenExtraError(ParseError("BadURI", text, arg)))]

\* "URI" with the reader as it is, "BadURI" once consumeBadURL has read
\* the rest; text and arg make the error of the BadURI
consumeURL_end(s, z, frag, bad, text, arg) ==
    IF bad THEN BadURIToken(frag, consumeBadURL(s, z), text, arg)
    ELSE [z |-> z, tok |-> Token("URI", frag, NoExtra)]

\* a variant that ends the URI after the whitespace whatever follows it
consumeURL_close_lenient(s, zp, frag, text) ==
    consumeURL_end(s, nextByte(s, zp).z, frag, FALSE, text, 0)

\* lines 589-602, 613-625: after the whitespace that follows the body; text
\* is the message of the BadURI when no ')' follows
consumeURL_close(s, zp, frag, text) ==
    IF zp.peek[1] = chRPAREN \/ zp.peek[1] = 0
    THEN consumeURL_end(s, nextByte(s, zp).z, frag, FALSE, text, 0)
    ELSE consumeURL_end(s, zp, frag, TRUE, text, 0)

\* the loop over an unquoted body
RECURSIVE consumeURL_loop(_, _, _)
consumeURL_loop(s, z, frag) ==
    LET n == nextByte(s, z)
        zp == repeek(s, unreadByte(n.z))
        \* lines 651-654: the escaped code point e is appended
        escaped(e) == consumeURL_loop(s, e.z, frag \o EncodeRune(e.cp))
        illegal == n.by = chSQUOTE \/ n.by = chDQUOTE \/ n.by = chLPAREN
    IN IF n.by = chRPAREN \/ n.by = 0 THEN
           [z |-> n.z, tok |-> Token("URI", frag, NoExtra)]
       ELSE IF isWhitespace(n.by) THEN
           consumeURL_close(s, repeek(s, consumeWhitespace(s, n.z, 0).z), frag,
                            "bare url() with internal whitespace")
       ELSE IF illegal \/ isNonPrintable(n.by) \/ (n.by = chBACKSLASH /\ ~nextIsEscape(zp))
       THEN consumeURL_end(s, IF n.by = chBACKSLASH THEN zp ELSE n.z, frag, TRUE,
                           IF illegal THEN "bare url() with illegal character '%c'"
                           ELSE IF isNonPrintable(n.by)
                           THEN "bare url() with unprintable character '%d'"
                           ELSE "bare url() with invalid escape",
                           IF n.by = chBACKSLASH THEN 0 ELSE n.by)
       ELSE IF n.by = chBACKSLASH
       THEN escaped(consumeEscapedCP(s, nextByte(s, zp).z))
       ELSE consumeURL_loop(s, n.z, Append(frag, n.by))

\* lines 573-602: after the quoted string t
consumeURL_quoted(s, t) ==
    IF t.tok.Type = "BadString"
    THEN consumeURL_end(s, t.z, t.tok.Value, TRUE, "unterminated string in url()", 0)
    ELSE consumeURL_close(s, repeek(s, consumeWhitespace(s, t.z, 0).z), t.tok.Value,
                          "url() with string missing close parenthesis")

\* lines 564-668: after the leading whitespace; z0.peek is fresh
consumeURL_body(s, z0) ==
    IF z0.peek[1] = 0 THEN [z |-> z0, tok |-> Token("URI", <<>>, NoExtra)]
    ELSE IF z0.peek[1] = chSQUOTE \/ z0.peek[1] = chDQUOTE THEN
        consumeURL_quoted(s, consumeString(s, nextByte(s, z0).z, z0.peek[1]))
    ELSE consumeURL_loop(s, z0, <<>>)

consumeURL(s, z) == consumeURL_body(s, repeek(s, consumeWhitespace(s, z, 0).z))

(***************************************************************************)
(* §4.3.3 consumeIdentish                                                  *)
(***************************************************************************)
ToLower(c) == IF c >= chUpperA /\ c <= chUpperZ THEN c + 32 ELSE c

\* strings.EqualFold(s, "url") on the bytes of an ASCII target
EqualFoldUrl(str) ==
    /\ Len(str) = 3
    /\ ToLower(str[1]) = chLowerU
    /\ ToLower(str[2]) = chLowerR
    /\ ToLower(str[3]) = chLowerL

\* a variant that knows the lower-case spelling of url only
consumeIdentish_paren_exact(s, nm, zp) ==
    IF zp.peek[1] = chLPAREN THEN
        IF nm.str = <<chLowerU, chLowerR, chLowerL>> THEN consumeURL(s, Discard(s, zp, 1))
        ELSE [z |-> Discard(s, zp, 1), tok |-> Token("Function", nm.str, NoExtra)]
    ELSE [z |-> zp, tok |-> Token("Ident", nm.str, NoExtra)]

\* lines 494-509: after the name nm; zp.peek is fresh
consumeIdentish_paren(s, nm, zp) ==
    IF zp.peek[1] = chLPAREN THEN
        IF EqualFoldUrl(nm.str) THEN consumeURL(s, Discard(s, zp, 1))
        ELSE [z |-> Discard(s, zp, 1), tok |-> Token("Function", nm.str, NoExtra)]
    ELSE [z |-> zp, tok |-> Token("Ident", nm.str, NoExtra)]

consumeIdentish_name(s, nm) == consumeIdentish_paren(s, nm, repeek(s, nm.z))

consumeIdentish(s, z) == consumeIdentish_name(s, consumeName(s, z))

(***************************************************************************)
(* §4.3.6 consumeUnicodeRange, called after "U+"                           *)
(***************************************************************************)
\* the first loop: hex digits, then question marks, six at most
RECURSIVE consumeUnicodeRange_start(_, _, _, _)
consumeUnicodeRange_start(s, z, sdigits, haveQuestionMarks) ==
    LET n == nextByte(s, z) IN
    IF Len(sdigits) >= 6 THEN
        [z |-> n.z, sdigits |-> sdigits, haveQuestionMarks |-> haveQuestionMarks]
    ELSE IF n.by = chQMARK THEN
        consumeUnicodeRange_start(s, n.z, Append(sdigits, n.by), TRUE)
    ELSE IF ~haveQuestionMarks /\ isHexDigit(n.by) THEN
        consumeUnicodeRange_start(s, n.z, Append(sdigits, n.by), haveQuestionMarks)
    ELSE [z |-> n.z, sdigits |-> sdigits, haveQuestionMarks |-> haveQuestionMarks]

\* the second loop: the hex digits after '-'
RECURSIVE consumeUnicodeRange_end(_, _, _)
consumeUnicodeRange_end(s, z, edigits) ==
    LET n == nextByte(s, z) IN
    IF Len(edigits) < 6 /\ isHexDigit(n.by)
    THEN consumeUnicodeRange_end(s, n.z, Append(edigits, n.by))
    ELSE [z |-> n.z, edigits |-> edigits]

\* a variant that puts F for '?' in the start and 0 in the end
consumeUnicodeRange_range_swapped(s, l, zp) ==
    LET explicit(e) ==
            [z |-> unreadByte(e.z), sdigits |-> l.sdigits, edigits |-> e.edigits]
    IN IF l.haveQuestionMarks THEN
           [z |-> zp,
            sdigits |-> [k \in 1..Len(l.sdigits) |->
                            IF l.sdigits[k] = chQMARK THEN chUpperF ELSE l.sdigits[k]],
            edigits |-> [k \in 1..Len(l.sdigits) |->
                            IF l.sdigits[k] = chQMARK THEN chZERO ELSE l.sdigits[k]]]
       ELSE IF zp.peek[1] = chMINUS /\ isHexDigit(zp.peek[2]) THEN
           explicit(consumeUnicodeRange_end(s, nextByte(s, zp).z, <<>>))
       ELSE [z |-> zp, sdigits |-> l.sdigits, edigits |-> l.sdigits]

\* lines 693-725: the digit strings after the first loop l; zp.peek is fresh
consumeUnicodeRange_range(s, l, zp) ==
    LET \* lines 709-721: the explicit end e of the range
        explicit(e) ==
            [z |-> unreadByte(e.z), sdigits |-> l.sdigits, edigits |-> e.edigits]
    IN IF l.haveQuestionMarks THEN
           [z |-> zp,
            sdigits |-> [k \in 1..Len(l.sdigits) |->
                            IF l.sdigits[k] = chQMARK THEN chZERO ELSE l.sdigits[k]],
            edigits |-> [k \in 1..Len(l.sdigits) |->
                            IF l.sdigits[k] = chQMARK THEN chUpperF ELSE l.sdigits[k]]]
       ELSE IF zp.peek[1] = chMINUS /\ isHexDigit(zp.peek[2]) THEN
           explicit(consumeUnicodeRange_end(s, nextByte(s, zp).z, <<>>))
       ELSE [z |-> zp, sdigits |-> l.sdigits, edigits |-> l.sdigits]

\* a variant that does not give back the byte that ended the first loop
consumeUnicodeRange_first_nounread(s, l) == consumeUnicodeRange_range(s, l, repeek(s, l.z))

consumeUnicodeRange_first(s, l) == consumeUnicodeRange_range(s, l, repeek(s, unreadByte(l.z)))

\* lines 673-725: the digit strings handed to ParseInt
consumeUnicodeRange_digits(s, z) ==
    consumeUnicodeRange_first(s, consumeUnicodeRange_start(s, z, <<>>, FALSE))

\* what unwinds out of a consumer on panic(fmt.Sprintf(...)): a string,
\* not an error value
PanicString == Token("panic(string)", <<>>, NoExtra)

\* lines 728-744: after the two calls of ParseInt
consumeUnicodeRange_parsed(z, startCP, endCP) ==
    LET token(e) == [z |-> z, tok |-> Token("UnicodeRange", UnicodeRangeString(e), e)]
    IN IF ~startCP.ok \/ ~endCP.ok THEN [z |-> z, tok |-> PanicString]
       ELSE token(TokenExtraUnicodeRange(startCP.val, endCP.val))

consumeUnicodeRange_parse(d) ==
    consumeUnicodeRange_parsed(d.z, ParseInt(d.sdigits), ParseInt(d.edigits))

consumeUnicodeRange(s, z) == consumeUnicodeRange_parse(consumeUnicodeRange_digits(s, z))

(***************************************************************************)
(* consumeComment, called after the opening of the comment                 *)
(***************************************************************************)
RECURSIVE consumeComment_loop(_, _, _)
consumeComment_loop(s, z, frag) ==
    LET n == nextByte(s, z) IN
    IF n.by = chSTAR THEN
        LET zp == repeek(s, n.z) IN
        IF zp.peek[1] = chSLASH
        THEN [z |-> nextByte(s, zp).z, tok |-> Token("Comment", frag, NoExtra)]
        ELSE consumeComment_loop(s, zp, Append(frag, n.by))
    ELSE IF n.by = 0 THEN [z |-> n.z, tok |-> Token("Comment", frag, NoExtra)]
    ELSE consumeComment_loop(s, n.z, Append(frag, n.by))

consumeComment(s, z) == consumeComment_loop(s, z, <<>>)

(***************************************************************************)
(* §4.3.1 consume: the dispatch on the first byte.  A case of the switch   *)
(* either returns a token or breaks out to the code after the switch.      *)
(***************************************************************************)
\* a case that ends in break, with the reader as the case left it
Break(z) == [z |-> z, tok |-> Token("break", <<>>, NoExtra)]

\* a variant whose Delim leaves its byte unread
consume_default_unread(s, z, ch) ==
    IF isDigit(ch) THEN consumeNumeric(s, unreadByte(z))
    ELSE IF isNameStart(ch) THEN consumeIdentish(s, unreadByte(z))
    ELSE [z |-> unreadByte(z), tok |-> Token("Delim", <<ch>>, NoExtra)]

\* lines 377-388: what follows the switch
consume_default(s, z, ch) ==
    IF isDigit(ch) THEN consumeNumeric(s, unreadByte(z))
    ELSE IF isNameStart(ch) THEN consumeIdentish(s, unreadByte(z))
    ELSE [z |-> z, tok |-> Token("Delim", <<ch>>, NoExtra)]

\* a variant for which every Hash is an identifier
consume_hash_restricted(s, z, ch) ==
    LET zp == repeek(s, z)
        hash(nm) == [z |-> nm.z, tok |-> Token("Hash", nm.str, TokenExtraHash(TRUE))]
    IN IF isNameCode(zp.peek[1]) \/ nextIsEscape(zp) THEN hash(consumeName(s, zp))
       ELSE Break(zp)

\* case '#'
consume_hash(s, z, ch) ==
    LET zp == repeek(s, z)
        hash(nm) ==
            [z |-> nm.z,
             tok |-> Token("Hash", nm.str, TokenExtraHash(nextStartsIdentifier(zp)))]
    IN IF isNameCode(zp.peek[1]) \/ nextIsEscape(zp) THEN hash(consumeName(s, zp))
       ELSE Break(zp)

\* case '$', '*', '^', '~'
consume_match(s, z, ch) ==
    LET zp == repeek(s, z) IN
    IF zp.peek[1] = chEQ THEN [z |-> Discard(s, zp, 1), tok |-> premadeTokens(ch)]
    ELSE Break(zp)

\* case '|'
consume_pipe(s, z, ch) ==
    LET zp == repeek(s, z) IN
    IF zp.peek[1] = chEQ THEN [z |-> Discard(s, zp, 1), tok |-> premadeTokens(chUpperA)]
    ELSE IF zp.peek[1] = chPIPE THEN [z |-> Discard(s, zp, 1), tok |-> premadeTokens(66)]
    ELSE Break(zp)

\* case '+' and case '.'
consume_plus(s, z, ch) ==
    LET zp == repeek(s, unreadByte(z)) IN
    IF nextIsNumber(zp) THEN consumeNumeric(s, zp)
    ELSE Break(nextByte(s, zp).z)

\* case '-'
consume_minus(s, z, ch) ==
    LET zp == repeek(s, unreadByte(z)) IN
    IF nextIsNumber(zp) THEN consumeNumeric(s, zp)
    ELSE IF nextStartsIdentifier(zp) THEN consumeIdentish(s, zp)
    ELSE IF nextCompare(zp, <<chMINUS, chMINUS, chGT>>)
    THEN [z |-> Discard(s, zp, 3), tok |-> premadeTokens(67)]
    ELSE Break(nextByte(s, zp).z)

\* case '/'
consume_slash(s, z, ch) ==
    LET zp == repeek(s, z) IN
    IF zp.peek[1] = chSTAR THEN consumeComment(s, Discard(s, zp, 1))
    ELSE Break(zp)

\* case '<'
consume_lt(s, z, ch) ==
    LET zp == repeek(s, z) IN
    IF nextCompare(zp, <<chBANG, chMINUS, chMINUS>>)
    THEN [z |-> Discard(s, zp, 3), tok |-> premadeTokens(79)]
    ELSE Break(zp)

\* case '@'
consume_at(s, z, ch) ==
    LET zp == repeek(s, z)
        at(nm) == [z |-> nm.z, tok |-> Token("AtKeyword", nm.str, NoExtra)]
    IN IF nextStartsIdentifier(zp) THEN at(consumeName(s, zp)) ELSE Break(zp)

\* case '\\' with the invalid escape reported before its backslash is read
consume_backslash_unread(s, z, ch) ==
    LET zp == repeek(s, unreadByte(z)) IN
    IF nextIsEscape(zp) THEN consumeIdentish(s, zp)
    ELSE [z |-> zp, tok |-> premadeTokens(chBACKSLASH)]

\* case '\\'
consume_backslash(s, z, ch) ==
    LET zp == repeek(s, unreadByte(z)) IN
    IF nextIsEscape(zp) THEN consumeIdentish(s, zp)
    ELSE [z |-> nextByte(s, zp).z, tok |-> premadeTokens(chBACKSLASH)]

\* case 'U', 'u' without the test of the byte after the '+'
consume_u_unchecked(s, z, ch) ==
    LET zp == repeek(s, unreadByte(z)) IN
    IF zp.peek[2] = chPLUS
    THEN consumeUnicodeRange(s, Discard(s, zp, 2))
    ELSE Break(zp)

\* case 'U', 'u'
consume_u(s, z, ch) ==
    LET zp == repeek(s, unreadByte(z)) IN
    IF zp.peek[2] = chPLUS /\ (isHexDigit(zp.peek[3]) \/ zp.peek[3] = chQMARK)
    THEN consumeUnicodeRange(s, Discard(s, zp, 2))
    ELSE Break(zp)

\* lines 269-375: the switch
consume_switch(s, z, ch) ==
    IF ch = 0 THEN [z |-> z, tok |-> premadeTokens(chUpperE)]
    ELSE IF ch = chLF \/ ch = chTAB \/ ch = chSPACE THEN consumeWhitespace(s, z, ch)
    ELSE IF ch = chDQUOTE \/ ch = chSQUOTE THEN consumeString(s, z, ch)
    ELSE IF ch = chHASH THEN consume_hash(s, z, ch)
    ELSE IF ch \in {chLPAREN, chRPAREN, chCOMMA, chCOLON, chSEMI,
                    chLBRACKET, chRBRACKET, chLBRACE, chRBRACE}
         THEN [z |-> z, tok |-> premadeTokens(ch)]
    ELSE IF ch \in {chDOLLAR, chSTAR, chCARET, chTILDE} THEN consume_match(s, z, ch)
    ELSE IF ch = chPIPE THEN consume_pipe(s, z, ch)
    ELSE IF ch = chPLUS \/ ch = chDOT THEN consume_plus(s, z, ch)
    ELSE IF ch = chMINUS THEN consume_minus(s, z, ch)
    ELSE IF ch = chSLASH THEN consume_slash(s, z, ch)
    ELSE IF ch = chLT THEN consume_lt(s, z, ch)
    ELSE IF ch = chAT THEN consume_at(s, z, ch)
    ELSE IF ch = chBACKSLASH THEN consume_backslash(s, z, ch)
    ELSE IF ch = chUpperU \/ ch = chLowerU THEN consume_u(s, z, ch)
    ELSE Break(z)

\* lines 377-388 are reached by the cases that break
consume_after(s, r, ch) == IF r = Break(r.z) THEN consume_default(s, r.z, ch) ELSE r

consume_first(s, n) == consume_after(s, consume_switch(s, n.z, n.by), n.by)

consume(s, z) == consume_first(s, nextByte(s, z))

(***************************************************************************)
(* Tokenizer.Scan: z.tok after the call, and whether a panic left Scan     *)
(* (a panic value that is no error is raised again by the deferred         *)
(* function, and z.tok keeps its old value).                               *)
(***************************************************************************)
\* the error a failing source returns, io.ErrUnexpectedEOF
ErrUnexpectedEOF == "ErrUnexpectedEOF"

\* err.Error(): "unexpected EOF"
ErrorText(err) ==
    IF err = ErrUnexpectedEOF
    THEN <<117, 110, 101, 120, 112, 101, 99, 116, 101, 100, 32, 69, 79, 70>>
    ELSE <<>>

\* a variant that reports the failure of the source as the end of the input
Scan_eof(s, z, oldTok) ==
    LET consumed(r) ==
            IF Panicking(r.z)
            THEN [z |-> r.z, tok |-> Token("EOF", <<>>, NoExtra), panicked |-> FALSE]
            ELSE IF r.tok = PanicString
            THEN [z |-> r.z, tok |-> oldTok, panicked |-> TRUE]
            ELSE [z |-> r.z, tok |-> r.tok, panicked |-> FALSE]
    IN IF z.err = "nil" THEN consumed(consume(s, z))
       ELSE [z |-> z, tok |-> Token("EOF", <<>>, NoExtra), panicked |-> FALSE]

Scan(s, z, oldTok) ==
    LET \* lines 53-68: z.tok = z.consume() under the deferred recover; a
        \* panic(err) of the reader comes before any later panic
        consumed(r) ==
            IF Panicking(r.z)
            THEN [z |-> r.z, tok |-> Token("Error", <<>>, TokenExtraError(r.z.err)),
                  panicked |-> FALSE]
            ELSE IF r.tok = PanicString
            THEN [z |-> r.z, tok |-> oldTok, panicked |-> TRUE]
            ELSE [z |-> r.z, tok |-> r.tok, panicked |-> FALSE]
    IN IF z.err = "nil" THEN consumed(consume(s, z))
       ELSE IF z.err = "EOF" THEN
           [z |-> z, tok |-> Token("EOF", <<>>, NoExtra), panicked |-> FALSE]
       ELSE \* lines 73-78
            [z |-> z, tok |-> Token("Error", ErrorText(z.err), TokenExtraError(z.err)),
             panicked |-> FALSE]

(***************************************************************************)
(* The renderer (token.go).                                                *)
(***************************************************************************)
needsHexEscaping(c, mode) ==
    IF c < 32 THEN TRUE
    ELSE IF c >= RuneSelf THEN FALSE
    ELSE IF mode = 2 /\ (c = chLowerE \/ c = chUpperE) THEN TRUE
    ELSE IF c = chBACKSLASH THEN TRUE
    ELSE IF isNameCode(c) THEN FALSE
    ELSE TRUE

\* fmt.Fprintf(&buf, "\\%X ", c)
HexEscape(c) == <<chBACKSLASH>> \o FormatX(c) \o <<chSPACE>>

\* lines 321-329: the rest of the name, from index i (1-based)
RECURSIVE escapeIdent_rest(_, _)
escapeIdent_rest(s, i) ==
    IF i > Len(s) THEN <<>>
    ELSE (IF ~isNameCode(s[i]) THEN HexEscape(s[i]) ELSE <<s[i]>>)
         \o escapeIdent_rest(s, i + 1)

\* lines 287-319: the first character in the modes 0 (identifier) and 2 (dimension)
escapeIdent_first(s, mode) ==
    IF ~isNameStart(s[1]) /\ s[1] # chMINUS /\ s[1] # chLowerE /\ s[1] # chUpperE THEN
        IF needsHexEscaping(s[1], mode) THEN HexEscape(s[1])
        ELSE <<chBACKSLASH, s[1]>>
    ELSE IF s[1] = chLowerE \/ s[1] = chUpperE THEN
        IF mode = 2 THEN HexEscape(s[1]) ELSE <<s[1]>>
    ELSE IF s[1] = chMINUS THEN
        IF isNameStart(s[2]) THEN <<chMINUS>> ELSE <<chBACKSLASH, chMINUS>>
    ELSE <<s[1]>>

escapeIdent(s, mode) ==
    IF s = <<>> THEN <<>>
    ELSE IF mode # 1 THEN
        IF s = <<chMINUS>> THEN <<chBACKSLASH, chMINUS>>
        ELSE escapeIdent_first(s, mode) \o escapeIdent_rest(s, 2)
    ELSE escapeIdent_rest(s, 1)

escapeIdentifier(s) == escapeIdent(s, 0)
escapeHashName(s) == escapeIdent(s, 1)
escapeDimension(s) == escapeIdent(s, 2)

RECURSIVE escapeString_body(_, _)
escapeString_body(s, i) ==
    IF i > Len(s) THEN <<>>
    ELSE LET c == s[i]
             out == IF c = chDQUOTE THEN <<chBACKSLASH, chDQUOTE>>
                    ELSE IF c = chLF THEN <<chBACKSLASH, chZERO, chUpperA, chSPACE>>
                    ELSE IF c = chCR THEN <<chBACKSLASH, chZERO, 68, chSPACE>>
                    ELSE IF c = chBACKSLASH THEN <<chBACKSLASH, chBACKSLASH>>
                    ELSE IF c < RuneSelf /\ isNonPrintable(c)
                         THEN <<chBACKSLASH>> \o FormatX(c)
                    ELSE <<c>>
         IN out \o escapeString_body(s, i + 1)

escapeString(s) == <<chDQUOTE>> \o escapeString_body(s, 1) \o <<chDQUOTE>>

\* strings.TrimSuffix(str, "\"")
TrimSuffixQuote(str) ==
    IF Len(str) >= 1 /\ str[Len(str)] = chDQUOTE THEN SubSeq(str, 1, Len(str) - 1)
    ELSE str

urlOpen == <<chLowerU, chLowerR, chLowerL, chLPAREN>>

\* Token.WriteTo: the bytes written for t
WriteTo(t) ==
    IF t.Type = "Error" THEN <<>>
    ELSE IF t.Type = "EOF" THEN <<>>
    ELSE IF t.Type = "Ident" THEN escapeIdentifier(t.Value)
    ELSE IF t.Type = "AtKeyword" THEN <<chAT>> \o escapeIdentifier(t.Value)
    ELSE IF t.Type = "Delim" THEN
        IF t.Value = <<chBACKSLASH>> THEN <<chBACKSLASH, chLF>> ELSE t.Value
    ELSE IF t.Type = "Hash" THEN
        <<chHASH>> \o (IF t.Extra.IsIdentifier THEN escapeIdentifier(t.Value)
                       ELSE escapeHashName(t.Value))
    ELSE IF t.Type = "Percentage" THEN t.Value \o <<chPERCENT>>
    ELSE IF t.Type = "Dimension" THEN t.Value \o escapeDimension(t.Extra.Dimension)
    ELSE IF t.Type = "String" THEN escapeString(t.Value)
    ELSE IF t.Type = "URI" THEN urlOpen \o escapeString(t.Value) \o <<chRPAREN>>
    ELSE IF t.Type = "UnicodeRange" THEN UnicodeRangeString(t.Extra)
    ELSE IF t.Type = "Comment" THEN <<chSLASH, chSTAR>> \o t.Value \o <<chSTAR, chSLASH>>
    ELSE IF t.Type = "Function" THEN t.Value \o <<chLPAREN>>
    ELSE IF t.Type = "BadEscape" THEN <<chBACKSLASH, chLF>>
    ELSE IF t.Type = "BadString" THEN <<chDQUOTE>> \o t.Value \o <<chLF>>
    ELSE IF t.Type = "BadURI" THEN
        urlOpen \o TrimSuffixQuote(escapeString(t.Value)) \o <<chLF, chRPAREN>>
    ELSE t.Value

(***************************************************************************)
(* commentInsertionRules.  The maps are keyed by interface{} values: a     *)
(* TokenType, or the rune (int32) of a character literal.  WriteTokenTo    *)
(* looks a Delim up under Value[0], which is a byte (uint8); interface     *)
(* values of different dynamic types are different keys.                   *)
(***************************************************************************)
TypeKey(t) == [type |-> t]
RuneKey(c) == [rune |-> c]
ByteKey(c) == [byte |-> c]

\* the list without its last type, CDC
commentInsertionThruCDC_short ==
    {TypeKey("Ident"), TypeKey("Function"), TypeKey("URI"), TypeKey("BadURI"),
     TypeKey("Number"), TypeKey("Percentage"), TypeKey("Dimension"),
     TypeKey("UnicodeRange"), RuneKey(chMINUS)}

commentInsertionThruCDC ==
    {TypeKey("Ident"), TypeKey("Function"), TypeKey("URI"), TypeKey("BadURI"),
     TypeKey("Number"), TypeKey("Percentage"), TypeKey("Dimension"),
     TypeKey("UnicodeRange"), TypeKey("CDC"), RuneKey(chMINUS)}

commentInsertionThruUnicodeRange ==
    {TypeKey("Ident"), TypeKey("Function"), TypeKey("URI"), TypeKey("BadURI"),
     TypeKey("Number"), TypeKey("Percentage"), TypeKey("Dimension"),
     TypeKey("UnicodeRange")}

commentInsertionNumeric ==
    {TypeKey("Number"), TypeKey("Percentage"), TypeKey("Dimension")}

\* commentInsertionRules[prevKey][curKey], false when either key is absent
commentInsertionRules(prevKey, curKey) ==
    IF prevKey = TypeKey("Ident")
        THEN curKey \in commentInsertionThruCDC \cup {RuneKey(chLPAREN)}
    ELSE IF prevKey \in {TypeKey("AtKeyword"), TypeKey("Hash"), TypeKey("Dimension")}
        THEN curKey \in commentInsertionThruCDC
    ELSE IF prevKey = RuneKey(chHASH)
        THEN curKey \in commentInsertionThruUnicodeRange \cup {RuneKey(chMINUS)}
    ELSE IF prevKey = RuneKey(chMINUS)
        THEN curKey \in commentInsertionThruUnicodeRange
    ELSE IF prevKey = TypeKey("Number")
        THEN curKey \in commentInsertionThruUnicodeRange
    ELSE IF prevKey = RuneKey(chAT)
        THEN curKey \in {TypeKey("Ident"), TypeKey("Function"), TypeKey("URI"),
                         TypeKey("BadURI"), TypeKey("UnicodeRange"), RuneKey(chMINUS)}
    ELSE IF prevKey = TypeKey("UnicodeRange")
        THEN curKey \in {TypeKey("Ident"), TypeKey("Function"), TypeKey("Number"),
                         TypeKey("Percentage"), TypeKey("Dimension"), RuneKey(chQMARK)}
    ELSE IF prevKey \in {RuneKey(chDOT), RuneKey(chPLUS)}
        THEN curKey \in commentInsertionNumeric
    ELSE IF prevKey \in {RuneKey(chDOLLAR), RuneKey(chSTAR), RuneKey(chCARET),
                         RuneKey(chTILDE)}
        THEN curKey = RuneKey(chEQ)
    ELSE IF prevKey = RuneKey(chPIPE)
        THEN curKey \in {RuneKey(chEQ), RuneKey(chPIPE)}
    ELSE IF prevKey = RuneKey(chSLASH)
        THEN curKey = RuneKey(chSTAR)
    ELSE FALSE

\* the key WriteTokenTo computes for a token
RendererKey(t) == IF t.Type = "Delim" THEN ByteKey(t.Value[1]) ELSE TypeKey(t.Type)

\* TokenRenderer.WriteTokenTo: the bytes written for t after lastToken
WriteTokenTo(lastToken, t) ==
    (IF commentInsertionRules(RendererKey(lastToken), RendererKey(t))
     THEN <<chSLASH, chSTAR, chSTAR, chSLASH>> ELSE <<>>)
    \o WriteTo(t)

(***************************************************************************)
(* The state.                                                              *)
(*   b, stream    the source bytes and what the bufio.Reader over the      *)
(*                normalizer serves for them                               *)
(*   z, tok       the Tokenizer's fields                                   *)
(*   panicked     a panic has left Next()                                  *)
(*   calls, eofs  how many calls of Next() were made, and how many of      *)
(*                them returned EOF                                        *)
(*   start        z.pos before the latest call of Next()                   *)
(*   pc           where the caller is                                      *)
(*   tokens, wr, nw, rerenderBuf, restream, z2, tok2, i, fuzzPanic         *)
(*                the locals of Fuzz: the token list, the renderer's       *)
(*                lastToken, the writer's loop index, the bytes written,   *)
(*                what the second tokenizer's reader serves once the pipe  *)
(*                is closed, the second tokenizer, the compare index and   *)
(*                the panic message                                        *)
(***************************************************************************)
VARIABLES b, stream, z, tok, panicked, calls, eofs, start,
          pc, tokens, wr, nw, rerenderBuf, restream, z2, tok2, i, fuzzPanic,
          prev, pending, consumed, written, ret,
          wpc, wbuf, pipe, prClosed

tokVars == <<z, tok, panicked, calls, eofs, start>>
fuzzVars == <<tokens, wr, nw, rerenderBuf, restream, z2, tok2, i, fuzzPanic>>
\* a normalizer driven call by call: n.prev, the source not yet consumed,
\* the source consumed and the output written since the last Reset, and the
\* latest call (its destination size, the source offered, what it returned)
normVars == <<prev, pending, consumed, written, ret>>
\* the io.Pipe of Fuzz and the goroutine that writes to it: where the
\* goroutine is, the bytes of the current token's text it has not yet
\* written, the bytes of the pw.Write it is blocked in, and whether
\* pr.Close() was called
pipeVars == <<wpc, wbuf, pipe, prClosed>>
vars == <<b, stream, pc, tokVars, fuzzVars, normVars, pipeVars>>

(***************************************************************************)
(* Bounds and inputs.  An input is a concatenation of at most MaxLen       *)
(* fragments; a fragment is one byte, or a multi-byte opener.              *)
(***************************************************************************)
MaxLen == 3
MaxCallsAfterEOF == 2

RECURSIVE Flatten(_)
Flatten(fs) == IF fs = <<>> THEN <<>> ELSE Head(fs) \o Flatten(Tail(fs))

SeqsUpTo(A, n) == UNION {[1..k -> A] : k \in 0..n}

InputsOver(A, n) == {Flatten(fs) : fs \in SeqsUpTo(A, n)}

Fragments ==
    {<<chBACKSLASH>>, <<chLF>>, <<chCR>>, <<0>>, <<chSPACE>>, <<chDQUOTE>>,
     <<chLPAREN>>, <<chRPAREN>>, <<chMINUS>>, <<chPLUS>>, <<chDOT>>,
     <<chZERO + 1>>, <<chLowerA>>, <<chLowerE>>, <<chPERCENT>>, <<chHASH>>,
     <<chAT>>, <<chSLASH>>, <<chSTAR>>, <<chQMARK>>, <<1>>, <<195, 169>>,
     <<chUpperU, chPLUS>>, urlOpen, <<chSLASH, chSTAR, chSTAR, chSLASH>>}

\* the sources given to a normalizer that is driven call by call: up to
\* MaxSrcLen bytes out of CR, LF, NUL and a letter
MaxSrcLen == 5
MaxDstLen == 7

TransformInputs == SeqsUpTo({chCR, chLF, 0, chLowerA}, MaxSrcLen)

\* no call of Transform was made since the last Reset
NoCall == [dstLen |-> 0, src |-> <<>>, nDst |-> 0, nSrc |-> 0, err |-> "nil"]

\* NewTokenizer(r) on a source r that ends with one of srcErrs
InitOn(inputs, pc0, srcErrs) ==
    /\ b \in inputs
    /\ stream = Normalized(b)
    /\ \E srcErr \in srcErrs : z = [NewTokenizer EXCEPT !.srcErr = srcErr]
    /\ tok = ZeroToken
    /\ panicked = FALSE
    /\ calls = 0
    /\ eofs = 0
    /\ start = 1
    /\ pc = pc0
    /\ tokens = <<>>
    /\ wr = ZeroToken
    /\ nw = 0
    /\ rerenderBuf = <<>>
    /\ restream = <<>>
    /\ z2 = NewTokenizer
    /\ tok2 = ZeroToken
    /\ i = 0
    /\ fuzzPanic = "none"
    /\ prev = 0
    /\ pending \in (IF pc0 = "transform" THEN TransformInputs ELSE {<<>>})
    /\ consumed = <<>>
    /\ written = <<>>
    /\ ret = NoCall
    /\ wpc = "idle"
    /\ wbuf = <<>>
    /\ pipe = <<>>
    /\ prClosed = FALSE

InitWith(inputs, pc0) == InitOn(inputs, pc0, {"EOF"})

(***************************************************************************)
(* A caller that calls Next() again and again, also after EOF.             *)
(***************************************************************************)
\* the tokenizer's fields after the call of Scan that returned r
Scanned(r) ==
    /\ z' = r.z
    /\ tok' = r.tok
    /\ panicked' = r.panicked
    /\ eofs' = IF ~r.panicked /\ r.tok.Type = "EOF" THEN eofs + 1 ELSE eofs
    /\ calls' = calls + 1
    /\ start' = z.pos

TokenizerNext ==
    /\ pc = "Next"
    /\ ~panicked
    /\ eofs <= MaxCallsAfterEOF
    /\ calls <= Len(stream) + MaxCallsAfterEOF
    /\ Scanned(Scan(stream, z, tok))
    /\ UNCHANGED <<normVars, pipeVars, b, stream, pc, fuzzVars>>

Init == InitWith(InputsOver(Fragments, MaxLen), "Next")

Next == TokenizerNext

Spec == Init /\ [][Next]_vars

(***************************************************************************)
(* The tokenizer on inputs that open a unicode range: "U+" and up to       *)
(* MaxRangeLen bytes out of two hex digits, '?' and '-'.                   *)
(***************************************************************************)
MaxRangeLen == 8

RangeBytes == {chZERO + 5, chLowerA, chQMARK, chMINUS}

RangeInputs == {<<chUpperU, chPLUS>> \o w : w \in SeqsUpTo(RangeBytes, MaxRangeLen)}

InitRange == InitWith(RangeInputs, "Next")

SpecRange == InitRange /\ [][Next]_vars

\* the inputs that open with prefix and go on with up to n bytes out of A
PrefixedInputs(prefix, A, n) == {prefix \o w : w \in SeqsUpTo(A, n)}

(***************************************************************************)
(* The tokenizer on inputs that open a string: '"' and up to MaxStringLen  *)
(* bytes out of the quotes, backslash, LF, a letter and a hex digit.       *)
(***************************************************************************)
MaxStringLen == 6

InitString ==
    InitWith(PrefixedInputs(<<chDQUOTE>>,
                            {chDQUOTE, chSQUOTE, chBACKSLASH, chLF, chLowerA, chZERO + 1},
                            MaxStringLen), "Next")

SpecString == InitString /\ [][Next]_vars

(***************************************************************************)
(* The tokenizer on up to MaxNumLen bytes out of the signs, '.', a digit,  *)
(* 'e' and 'E'.                                                            *)
(***************************************************************************)
MaxNumLen == 6

InitNumeric ==
    InitWith(SeqsUpTo({chPLUS, chMINUS, chDOT, chZERO + 1, chLowerE, chUpperE}, MaxNumLen),
             "Next")

SpecNumeric == InitNumeric /\ [][Next]_vars

(***************************************************************************)
(* The tokenizer on "url(" and up to MaxURLLen bytes out of space, LF,     *)
(* ')', '(', '"', backslash, the byte 1 and a letter that is a hex digit.  *)
(***************************************************************************)
MaxURLLen == 5

InitURL ==
    InitWith(PrefixedInputs(urlOpen, {chSPACE, chLF, chRPAREN, chLPAREN, chDQUOTE,
                                      chBACKSLASH, 1, chLowerA}, MaxURLLen),
             "Next")

SpecURL == InitURL /\ [][Next]_vars

(***************************************************************************)
(* The tokenizer on a backslash, up to MaxHexLen hex digits out of '0' and *)
(* 'a', and then nothing, whitespace, a letter that is no hex digit, or    *)
(* a whole or a truncated two-byte character.                              *)
(***************************************************************************)
MaxHexLen == 7

InitEscape ==
    InitWith({<<chBACKSLASH>> \o digits \o after :
                 digits \in SeqsUpTo({chZERO, chLowerA}, MaxHexLen),
                 after \in {<<>>, <<chSPACE>>, <<chTAB>>, <<chLF>>, <<chLowerZ>>,
                            <<chSPACE, chSPACE>>, <<chSPACE, chLowerA>>,
                            <<chLF, chLowerZ>>, <<195, 169>>, <<195>>}},
             "Next")

SpecEscape == InitEscape /\ [][Next]_vars

(***************************************************************************)
(* The tokenizer on a name (spellings of url, plain and with escapes,      *)
(* names near it, 'U' and 'u') and up to MaxTailLen bytes out of '(', ')', *)
(* '+', space and a letter.                                                *)
(***************************************************************************)
MaxTailLen == 3

InitIdentish ==
    LET u == chLowerU
        r == chLowerR
        l == chLowerL
        esc == chBACKSLASH
    IN InitWith({name \o after :
                    name \in {<<u, r, l>>, <<u - 32, r - 32, l - 32>>, <<u, r - 32, l>>,
                              <<u, r>>, <<u, r, l, chLowerA>>, <<chMINUS, u, r, l>>,
                              <<chLowerA>>, <<u>>, <<u - 32>>,
                              <<esc, chZERO + 7, chZERO + 5, r, l>>,
                              <<esc, chZERO + 7, chZERO + 5, chSPACE, r, l>>,
                              <<u, esc, chZERO + 7, chZERO + 2, chSPACE, l>>,
                              <<u, r, esc, l>>},
                    after \in SeqsUpTo({chLPAREN, chRPAREN, chPLUS, chSPACE, chLowerA},
                                       MaxTailLen)},
                "Next")

SpecIdentish == InitIdentish /\ [][Next]_vars

(***************************************************************************)
(* The tokenizer on runs of up to MaxRunLen bytes of space or tab, with or *)
(* without one LF somewhere in the run, after nothing or a letter and      *)
(* before nothing, a letter, or a letter and a space.                      *)
(***************************************************************************)
MaxRunLen == 34

InitWhitespace ==
    LET run(n, fill, j) == [k \in 1..n |-> IF k = j THEN chLF ELSE fill]
    IN InitWith({before \o run(n, fill, j) \o after :
                    before \in {<<>>, <<chLowerA>>},
                    n \in 1..MaxRunLen, fill \in {chSPACE, chTAB}, j \in 0..MaxRunLen,
                    after \in {<<>>, <<chLowerA>>, <<chLowerA, chSPACE>>}},
                "Next")

SpecWhitespace == InitWhitespace /\ [][Next]_vars

(***************************************************************************)
(* The tokenizer on a source that serves its bytes and then either ends    *)
(* with io.EOF or fails with io.ErrUnexpectedEOF.                          *)
(***************************************************************************)
InitSource == InitOn(InputsOver(Fragments, MaxLen), "Next", {"EOF", ErrUnexpectedEOF})

SpecSource == InitSource /\ [][Next]_vars

(***************************************************************************)
(* Fuzz: tokenize b, render every token through one TokenRenderer,         *)
(* tokenize the rendering and compare, panicking on the first difference.  *)
(* The writer goroutine is run to its end before the second tokenizer      *)
(* starts, i.e. the rendering is fully buffered.                           *)
(***************************************************************************)
\* lines 32-43: one iteration of the first loop; r is what Scan returned
FuzzCollect(r) ==
    IF r.panicked THEN
        /\ pc' = "panic"
        /\ fuzzPanic' = "ParseInt failure"
        /\ UNCHANGED tokens
    ELSE IF r.tok.Type = "Error" THEN
        /\ pc' = "panic"
        /\ fuzzPanic' = "reading error"
        /\ UNCHANGED tokens
    ELSE IF r.tok.Type = "EOF" THEN
        /\ pc' = "render"
        /\ UNCHANGED <<tokens, fuzzPanic>>
    ELSE
        /\ tokens' = Append(tokens, r.tok)
        /\ UNCHANGED <<pc, fuzzPanic>>

FuzzScanned(r) == Scanned(r) /\ FuzzCollect(r)

FuzzTokenize ==
    /\ pc = "tokenize"
    /\ FuzzScanned(Scan(stream, z, tok))
    /\ UNCHANGED <<normVars, pipeVars, b, stream, wr, nw, rerenderBuf, restream, z2, tok2, i>>

\* lines 59-61: the writer renders the next token; with dropComments the
\* Comment tokens are left out of what is rendered
Write(dropComments) ==
    /\ pc = "render"
    /\ nw < Len(tokens)
    /\ LET v == tokens[nw + 1] IN
       IF dropComments /\ v.Type = "Comment" THEN UNCHANGED <<wr, rerenderBuf>>
       ELSE /\ rerenderBuf' = rerenderBuf \o WriteTokenTo(wr, v)
            /\ wr' = v
    /\ nw' = nw + 1
    /\ UNCHANGED <<normVars, pipeVars, b, stream, pc, tokVars, tokens, restream, z2, tok2, i, fuzzPanic>>

FuzzWrite == Write(FALSE)

\* line 62, 65: the writer closes the pipe, the second tokenizer reads it
\* through its own normalizer
FuzzClose ==
    /\ pc = "render"
    /\ nw = Len(tokens)
    /\ restream' = Normalized(rerenderBuf)
    /\ pc' = "retokenize"
    /\ UNCHANGED <<normVars, pipeVars, b, stream, tokVars, tokens, wr, nw, rerenderBuf, z2, tok2, i, fuzzPanic>>

\* lines 68-70: skip the Comment tokens of the original list (k is 0-based)
RECURSIVE SkipComments(_, _)
SkipComments(ts, k) ==
    IF k < Len(ts) /\ ts[k + 1].Type = "Comment" THEN SkipComments(ts, k + 1) ELSE k

\* lines 91-102: the panic message for the retokenized tt against the
\* original ot, "none" when they agree
FuzzCompare(tt, ot) ==
    IF tt.Type # ot.Type THEN ".Type not equal"
    ELSE IF tt.Value # ot.Value /\ ~StopToken(tt.Type) THEN ".Value not equal"
    ELSE IF TokenExtraTypeLookup(tt.Type) # "nil" /\ tt # ot /\ ~StopToken(tt.Type)
         THEN ".Extra not equal"
    ELSE "none"

\* lines 71-105: the panic message after reading tt with i1 original tokens
\* matched, "none" when the loop goes on or ends normally
FuzzVerdict(r, ts, i1) ==
    IF r.panicked THEN "ParseInt failure"
    ELSE IF r.tok.Type = "Comment" THEN "none"
    ELSE IF r.tok.Type = "Error" THEN "reading error"
    ELSE IF r.tok.Type = "EOF" THEN
         IF i1 # Len(ts) THEN "unexpected EOF" ELSE "none"
    ELSE IF i1 = Len(ts) THEN "expected EOF"
    ELSE FuzzCompare(r.tok, ts[i1 + 1])

\* lines 71-105: the second tokenizer returned r and i1 original tokens
\* are matched
FuzzCompared(r, i1) ==
    LET msg == FuzzVerdict(r, tokens, i1) IN
    /\ z2' = r.z
    /\ tok2' = r.tok
    /\ fuzzPanic' = msg
    /\ pc' = IF msg # "none" THEN "panic"
             ELSE IF r.tok.Type = "EOF" THEN "done"
             ELSE pc
    /\ i' = IF msg = "none" /\ r.tok.Type \notin {"Comment", "EOF"}
            THEN i1 + 1 ELSE i1

\* lines 67-105: one iteration of the second loop
FuzzRetokenize ==
    /\ pc = "retokenize"
    /\ FuzzCompared(Scan(restream, z2, tok2), SkipComments(tokens, i))
    /\ UNCHANGED <<normVars, pipeVars, b, stream, tokVars, tokens, wr, nw, rerenderBuf, restream>>

NextFuzz == FuzzTokenize \/ FuzzWrite \/ FuzzClose \/ FuzzRetokenize

InitFuzz == InitWith(InputsOver(Fragments, MaxLen), "tokenize")

SpecFuzz == InitFuzz /\ [][NextFuzz]_vars

(***************************************************************************)
(* The stream renderer applied to the comment-free token sequence: as      *)
(* Fuzz, but the writer leaves the Comment tokens out.                     *)
(***************************************************************************)
StreamWrite == Write(TRUE)

NextStream == FuzzTokenize \/ StreamWrite \/ FuzzClose \/ FuzzRetokenize

SpecStream == InitFuzz /\ [][NextStream]_vars

(***************************************************************************)
(* The stream renderer on the tokens of one token's text, or of two        *)
(* tokens' texts with a comment between them: with the comment dropped the *)
(* renderer sees the two tokens next to each other.                        *)
(***************************************************************************)
RenderTexts ==
    {<<chLowerA>>, <<chAT, chLowerA>>, <<chHASH, chLowerA>>, <<chZERO + 1, chLowerA>>,
     <<chZERO + 1>>, <<chZERO + 1, chPERCENT>>, <<chUpperU, chPLUS, chZERO + 1>>,
     <<chLowerA, chLPAREN>>, urlOpen \o <<chLowerA, chRPAREN>>,
     urlOpen \o <<chLowerA, chSPACE, chLowerA, chRPAREN>>,
     <<chMINUS, chMINUS, chGT>>, <<chLT, chBANG, chMINUS, chMINUS>>,
     <<chDQUOTE, chLowerA, chDQUOTE>>, <<chSPACE>>, <<chLPAREN>>, <<chCOLON>>,
     <<chMINUS>>, <<chAT>>, <<chDOT>>, <<chPLUS>>, <<chDOLLAR>>, <<chSTAR>>,
     <<chCARET>>, <<chTILDE>>, <<chPIPE>>, <<chEQ>>, <<chSLASH>>, <<chQMARK>>,
     <<chHASH>>}

InitRender ==
    InitWith(RenderTexts \cup
             {t1 \o <<chSLASH, chSTAR, chSTAR, chSLASH>> \o t2 :
                 t1 \in RenderTexts, t2 \in RenderTexts},
             "tokenize")

SpecRender == InitRender /\ [][NextStream]_vars

(***************************************************************************)
(* Fuzz on the text of one token with a name or a body of up to MaxPieces  *)
(* pieces, each piece the source text of one byte of the name or body: an  *)
(* Ident, an AtKeyword, a Hash or a Dimension (after 1, 1.5 or 1e1) over   *)
(* NamePieces, a String or a quoted URI over StringPieces.                 *)
(***************************************************************************)
MaxPieces == 3

\* the hex escape of the code point with the hex digits ds
EscapeText(ds) == <<chBACKSLASH>> \o ds \o <<chSPACE>>

\* a, e, -, 1, and the escapes of 1, U+0001, space, +, backslash, -
NamePieces ==
    {<<chLowerA>>, <<chLowerE>>, <<chMINUS>>, <<chZERO + 1>>,
     EscapeText(<<chZERO + 3, chZERO + 1>>), EscapeText(<<chZERO + 1>>),
     EscapeText(<<chZERO + 2, chZERO>>), EscapeText(<<chZERO + 2, chLowerA + 1>>),
     <<chBACKSLASH, chBACKSLASH>>, <<chBACKSLASH, chMINUS>>}

\* a, 1, space, ', and the escapes of ", backslash, LF, CR, U+0001
StringPieces ==
    {<<chLowerA>>, <<chZERO + 1>>, <<chSPACE>>, <<chSQUOTE>>,
     <<chBACKSLASH, chDQUOTE>>, <<chBACKSLASH, chBACKSLASH>>,
     EscapeText(<<chLowerA>>), EscapeText(<<chLowerA + 3>>), EscapeText(<<chZERO + 1>>)}

InitRoundTrip ==
    InitWith({pre \o name :
                 pre \in {<<>>, <<chAT>>, <<chHASH>>, <<chZERO + 1>>,
                          <<chZERO + 1, chDOT, chZERO + 5>>,
                          <<chZERO + 1, chLowerE, chZERO + 1>>},
                 name \in InputsOver(NamePieces, MaxPieces)}
             \cup
             {<<chDQUOTE>> \o body \o <<chDQUOTE>> :
                 body \in InputsOver(StringPieces, MaxPieces)}
             \cup
             {urlOpen \o <<chDQUOTE>> \o body \o <<chDQUOTE, chRPAREN>> :
                 body \in InputsOver(StringPieces, MaxPieces)},
             "tokenize")

SpecRoundTrip == InitRoundTrip /\ [][NextFuzz]_vars

(***************************************************************************)
(* Fuzz with its two goroutines: the writer renders the tokens into the    *)
(* io.Pipe, the main goroutine tokenizes what it reads from the pipe.      *)
(* pw.Write hands its bytes to the reader and returns when the reader has  *)
(* taken them or when pr.Close() was called; a token's text is written in  *)
(* one or more writes of any sizes, the first of which may be empty.  The  *)
(* reads of the second tokenizer (ReadByte, Peek) wait until the bytes     *)
(* they ask for have arrived or the writer has closed the pipe; a read     *)
(* takes all the bytes of the write it meets.                              *)
(*   wpc  "idle" before the go statement, "loop" at the head of the range  *)
(*        loop, "token"/"more" inside WriteTokenTo before/after its first  *)
(*        write, "write" blocked in pw.Write, "exit" after pw.Close()      *)
(***************************************************************************)
MaxPipeLen == 3

PipeFragments ==
    {<<chLowerA>>, <<chSPACE>>, <<chMINUS>>, <<chZERO + 1>>, <<chDQUOTE>>,
     <<chSLASH, chSTAR, chSTAR, chSLASH>>, EscapeText(<<chZERO + 3, chZERO + 1>>)}

\* the error of a read that would have to wait for more bytes
WouldBlock == "WouldBlock"

\* lines 54-65: io.Pipe(), the go statement, NewTokenizer(pr)
PipeStart ==
    /\ pc = "render"
    /\ wpc = "idle"
    /\ pc' = "retokenize"
    /\ wpc' = "loop"
    /\ UNCHANGED <<normVars, b, stream, tokVars, fuzzVars, wbuf, pipe, prClosed>>

\* where the writer goes on when a pw.Write has returned
AfterWrite(rest) == IF rest = <<>> THEN "loop" ELSE "more"

\* lines 59-60: the next token of the range loop enters WriteTokenTo
PipeRender ==
    /\ wpc = "loop"
    /\ nw < Len(tokens)
    /\ wbuf' = WriteTokenTo(wr, tokens[nw + 1])
    /\ wr' = tokens[nw + 1]
    /\ nw' = nw + 1
    /\ wpc' = "token"
    /\ UNCHANGED <<normVars, b, stream, pc, tokVars, tokens, rerenderBuf, restream,
                   z2, tok2, i, fuzzPanic, pipe, prClosed>>

\* line 58: one Write of the MultiWriter with the next k bytes of the token's
\* text: into rerenderBuf, then into the pipe, where it waits for the reader
\* unless the read end is closed
PipeWrite ==
    /\ wpc \in {"token", "more"}
    /\ \E k \in (IF wpc = "token" THEN 0 ELSE 1)..Len(wbuf) :
          /\ rerenderBuf' = rerenderBuf \o SubSeq(wbuf, 1, k)
          /\ wbuf' = Drop(wbuf, k)
          /\ IF prClosed
             THEN wpc' = AfterWrite(Drop(wbuf, k)) /\ pipe' = <<>>
             ELSE wpc' = "write" /\ pipe' = SubSeq(wbuf, 1, k)
    /\ UNCHANGED <<normVars, b, stream, pc, tokVars, tokens, wr, nw, restream,
                   z2, tok2, i, fuzzPanic, prClosed>>

\* line 62: pw.Close()
PipeClose ==
    /\ wpc = "loop"
    /\ nw = Len(tokens)
    /\ wpc' = "exit"
    /\ UNCHANGED <<normVars, b, stream, pc, tokVars, fuzzVars, wbuf, pipe, prClosed>>

\* the second tokenizer on the bytes that have arrived: before pw.Close()
\* a read past them has to wait, after it the read finds the end
PipeTokenizer == [z2 EXCEPT !.srcErr = IF wpc = "exit" THEN "EOF" ELSE WouldBlock]

\* a read that returns what has arrived instead of waiting
Waits_never(r) == FALSE

\* the call of Next() that returned r had to wait
Waits(r) == r.z.err = WouldBlock

\* line 71: the tokenizer, waiting in a read, takes the bytes of the
\* writer's pw.Write, which returns
PipeTaken(r) ==
    /\ Waits(r)
    /\ restream' = Normalized(rerenderBuf)
    /\ pipe' = <<>>
    /\ wpc' = AfterWrite(wbuf)

PipeRead ==
    /\ pc = "retokenize"
    /\ wpc = "write"
    /\ PipeTaken(Scan(restream, PipeTokenizer, tok2))
    /\ UNCHANGED <<normVars, b, stream, pc, tokVars, tokens, wr, nw, rerenderBuf,
                   z2, tok2, i, fuzzPanic, wbuf, prClosed>>

\* lines 67-105: one iteration of the second loop, once the call of Next()
\* had all the bytes it asked for
PipeScanned(r) ==
    /\ ~Waits(r)
    /\ FuzzCompared(r, SkipComments(tokens, i))

PipeScan ==
    /\ pc = "retokenize"
    /\ PipeScanned(Scan(restream, PipeTokenizer, tok2))
    /\ UNCHANGED <<normVars, b, stream, tokVars, tokens, wr, nw, rerenderBuf, restream,
                   pipeVars>>

\* line 55: the deferred pr.Close() when Fuzz returns or panics; a pw.Write
\* that waits returns with an error
FuzzReturn ==
    /\ pc \in {"done", "panic"}
    /\ wpc # "idle"
    /\ ~prClosed
    /\ prClosed' = TRUE
    /\ pipe' = <<>>
    /\ wpc' = IF wpc = "write" THEN AfterWrite(wbuf) ELSE wpc
    /\ UNCHANGED <<normVars, b, stream, pc, tokVars, fuzzVars, wbuf>>

\* the goroutine of the go statement, and the main goroutine
PipeWriter == PipeRender \/ PipeWrite \/ PipeClose
PipeReader == FuzzTokenize \/ PipeStart \/ PipeRead \/ PipeScan \/ FuzzReturn

NextPipe == PipeWriter \/ PipeReader

InitPipe == InitWith(InputsOver(PipeFragments, MaxPipeLen), "tokenize")

SpecPipe == InitPipe /\ [][NextPipe]_vars

(***************************************************************************)
(* normalize.Transform called again and again on one normalizer, as        *)
(* transform.Reader does: each call is offered a non-empty prefix of the   *)
(* source not yet consumed and a destination of 1 to MaxDstLen bytes.      *)
(***************************************************************************)
\* the normalizer's state and the histories after a call that returned r
Transformed(dstLen, src, r) ==
    /\ prev' = r.prev
    /\ pending' = Drop(pending, r.nSrc)
    /\ consumed' = consumed \o SubSeq(src, 1, r.nSrc)
    /\ written' = written \o r.out
    /\ ret' = [dstLen |-> dstLen, src |-> src, nDst |-> r.nDst, nSrc |-> r.nSrc,
               err |-> r.err]

TransformCall ==
    /\ pc = "transform"
    /\ pending # <<>>
    /\ \E k \in 1..Len(pending), dstLen \in 1..MaxDstLen :
           Transformed(dstLen, SubSeq(pending, 1, k),
                       Transform(prev, dstLen, SubSeq(pending, 1, k)))
    /\ UNCHANGED <<b, stream, pc, tokVars, fuzzVars, pipeVars>>

\* normalize.Reset
Reset ==
    /\ pc = "transform"
    /\ prev' = 0
    /\ consumed' = <<>>
    /\ written' = <<>>
    /\ ret' = NoCall
    /\ UNCHANGED <<pending, b, stream, pc, tokVars, fuzzVars, pipeVars>>

NextTransform == TransformCall \/ Reset

InitTransform == InitWith({<<>>}, "transform")

SpecTransform == InitTransform /\ [][NextTransform]_vars

(***************************************************************************)
(* Properties of Next() under Spec.  calls counts the calls made, start is *)
(* the reader's position when the last call began, eofs the number of      *)
(* calls that returned EOF.                                                *)
(***************************************************************************)

\* C1: every call that returns a token other than EOF has consumed at least
\* one byte, a call made after the whole input is consumed returns EOF (so
\* EOF comes after at most Len(stream) + 1 calls), and from the first EOF on
\* every call returns EOF with an empty Value.
C1_Termination ==
    /\ (calls > 0 /\ ~panicked /\ tok.Type # "EOF") => z.pos > start
    /\ calls > Len(stream) => tok.Type = "EOF"
    /\ eofs >= 1 => tok = Token("EOF", <<>>, NoExtra)

\* three tokens, then EOF twice
C1_Witness == calls = 5 /\ eofs = 2 /\ Len(stream) >= 3

(***************************************************************************)
(* Properties of the unicode-range consumer under SpecRange.               *)
(***************************************************************************)
\* the digit strings consumeUnicodeRange hands to ParseInt in the call that
\* began at start, where "U+" opens the range
RangeDigits ==
    consumeUnicodeRange_digits(
        stream, Discard(stream, repeek(stream, [NewTokenizer EXCEPT !.pos = start]), 2))

\* 1 to 6 hex digits
HexDigits1to6(digits) ==
    /\ Len(digits) \in 1..6
    /\ \A k \in 1..Len(digits) : isHexDigit(digits[k])

\* C5: no call of Next() leaves by a panic and none returns an Error token;
\* whenever the unicode-range consumer ran, the start and the end digit
\* strings it handed to ParseInt were 1 to 6 hex digits.
C5_NoPanic ==
    /\ ~panicked
    /\ calls > 0 => tok.Type # "Error"
    /\ (calls > 0 /\ tok.Type = "UnicodeRange") =>
           /\ HexDigits1to6(RangeDigits.sdigits)
           /\ HexDigits1to6(RangeDigits.edigits)

\* an explicit range whose start has the full six digits
C5_Witness ==
    /\ calls > 0
    /\ tok.Type = "UnicodeRange"
    /\ Len(RangeDigits.sdigits) = 6
    /\ RangeDigits.edigits # RangeDigits.sdigits
    /\ chQMARK \notin {stream[k] : k \in start..(z.pos - 1)}

\* the text of the last token holds a '-': the range is written explicitly
ExplicitRange == chMINUS \in {stream[k] : k \in start..(z.pos - 1)}

\* C7 as stated: every UnicodeRange token has Start <= End <= 0xFFFFFF.
C7_StartLeEnd ==
    (calls > 0 /\ tok.Type = "UnicodeRange") =>
        /\ tok.Extra.Start <= tok.Extra.End
        /\ tok.Extra.End <= 16777215

\* C7, amended: Start and End of every UnicodeRange token are at most
\* 0xFFFFFF, and Start <= End unless the range is written explicitly as
\* U+<hex>-<hex>, whose two numbers are kept as written.
C7_RangeBounds ==
    (calls > 0 /\ tok.Type = "UnicodeRange") =>
        /\ tok.Extra.Start \in 0..16777215
        /\ tok.Extra.End \in 0..16777215
        /\ ~ExplicitRange => tok.Extra.Start <= tok.Extra.End
        /\ ExplicitRange =>
               /\ tok.Extra.Start = HexNum(RangeDigits.sdigits, 0)
               /\ tok.Extra.End = HexNum(RangeDigits.edigits, 0)

\* an explicit range whose second number is the smaller one
C7_Witness ==
    /\ calls > 0
    /\ tok.Type = "UnicodeRange"
    /\ ExplicitRange
    /\ tok.Extra.End < tok.Extra.Start

(***************************************************************************)
(* Properties of single tokens under Spec.                                 *)
(***************************************************************************)
\* C6: every returned token carries the Extra variant that its Type
\* mandates (none for the Types without one), and the error extra of a
\* BadEscape, BadString or BadURI token is a ParseError of that Type.
C6_ExtraByType ==
    (calls > 0 /\ ~panicked) =>
        /\ tok.Extra.kind = TokenExtraTypeLookup(tok.Type)
        /\ tok.Type \in {"BadEscape", "BadString", "BadURI"} =>
               /\ tok.Extra.kind = "error"
               /\ tok.Extra.Err.Type = tok.Type

\* C8: a Number or Percentage token has an empty Extra.Dimension and a
\* Dimension token a non-empty one, whatever the unit starts with.
C8_Dimension ==
    (calls > 0 /\ ~panicked) =>
        /\ tok.Type \in {"Number", "Percentage"} => tok.Extra.Dimension = <<>>
        /\ tok.Type = "Dimension" => tok.Extra.Dimension # <<>>

\* a Dimension whose unit is a backslash that ends the input
C8_Witness ==
    /\ calls > 0
    /\ tok.Type = "Dimension"
    /\ z.pos = Len(stream) + 1
    /\ stream[Len(stream)] = chBACKSLASH
    /\ tok.Extra.Dimension = EncodeRune(RuneError)

\* the last token began at a backslash that is the last byte of the input
AtTrailingBackslash ==
    /\ calls > 0
    /\ Len(stream) > 0
    /\ start = Len(stream)
    /\ stream[Len(stream)] = chBACKSLASH

\* C9 as stated: a backslash that is the last byte of the input, at top
\* level, is returned as a BadEscape token.
C9_BadEscapeAtEOF == AtTrailingBackslash => tok.Type = "BadEscape"

\* C9, amended: a backslash that is the last byte of the input, at top
\* level, is a valid escape of the end of the input: Next() returns an Ident
\* token whose Value is U+FFFD, and the following call returns EOF.
C9_TrailingBackslash ==
    /\ AtTrailingBackslash =>
           /\ tok = Token("Ident", EncodeRune(RuneError), NoExtra)
           /\ z.pos = Len(stream) + 1
    /\ (calls > 0 /\ Len(stream) > 0 /\ start = Len(stream) + 1
           /\ stream[Len(stream)] = chBACKSLASH) => tok.Type = "EOF"

\* the input is a single backslash, and both calls were made
C9_Witness == b = <<chBACKSLASH>> /\ calls = 2 /\ eofs = 1

\* C10: a call that starts at a backslash followed by LF returns BadEscape
\* with Value "\", consumes the backslash alone and sets no error; the call
\* after a BadEscape returns an S token "\n" that begins at that LF.
C10_BadEscape ==
    [][ /\ (At(stream, z.pos) = chBACKSLASH /\ At(stream, z.pos + 1) = chLF) =>
               /\ tok'.Type = "BadEscape"
               /\ tok'.Value = <<chBACKSLASH>>
               /\ z'.pos = z.pos + 1
               /\ z'.err = "nil"
        /\ (calls > 0 /\ tok.Type = "BadEscape") =>
               /\ At(stream, z.pos) = chLF
               /\ tok' = Token("S", <<chLF>>, NoExtra)
               /\ start' = z.pos ]_vars

\* the S token returned right after a BadEscape
C10_Witness ==
    /\ calls >= 2
    /\ tok = Token("S", <<chLF>>, NoExtra)
    /\ start >= 2
    /\ stream[start - 1] = chBACKSLASH
    /\ stream[start] = chLF

(***************************************************************************)
(* Round-trip properties under SpecFuzz and SpecStream.  Fuzz panics       *)
(* exactly when the retokenized sequence departs from the original one,    *)
(* up to the Value and Extra of stop tokens.                               *)
(***************************************************************************)
HasStopToken(ts) == \E k \in 1..Len(ts) : StopToken(ts[k].Type)

\* 1-based index in ts of its first stop token
FirstStopToken(ts) == CHOOSE k \in 1..Len(ts) :
    /\ StopToken(ts[k].Type)
    /\ \A j \in 1..(k - 1) : ~StopToken(ts[j].Type)

\* C2: for an input without stop tokens, rendering all its tokens and
\* tokenizing the result reproduces the non-comment tokens, so Fuzz does
\* not panic.
C2_RoundTrip == (pc = "panic") => HasStopToken(tokens)

\* C4: for an input with a stop token, the retokenized sequence agrees with
\* the original non-comment tokens before the first stop token and has its
\* Type at that position, so Fuzz does not panic before it has matched the
\* first stop token.
C4_StopPrefix ==
    (pc = "panic" /\ HasStopToken(tokens)) => i >= FirstStopToken(tokens)

\* C3: for an input without stop tokens, rendering its tokens with the
\* Comment tokens left out and tokenizing the result reproduces the
\* non-comment tokens.
C3_StreamRoundTrip == ~HasStopToken(tokens) => fuzzPanic = "none"

(***************************************************************************)
(* Properties of the string consumer under SpecString.                     *)
(***************************************************************************)
\* how a string whose body begins at index p of s ends, read off the bytes:
\* at the delimiter, at the end of the input or before an unescaped LF; acc
\* is the body decoded so far
RECURSIVE StringEnd(_, _, _, _)
StringEnd(s, p, delim, acc) ==
    LET escaped(e) == StringEnd(s, e.z.pos, delim, acc \o EncodeRune(e.cp)) IN
    IF p > Len(s) THEN [Type |-> "String", Value |-> acc, pos |-> p]
    ELSE IF s[p] = delim THEN [Type |-> "String", Value |-> acc, pos |-> p + 1]
    ELSE IF s[p] = chLF THEN [Type |-> "BadString", Value |-> acc, pos |-> p]
    ELSE IF s[p] = chBACKSLASH THEN
        IF p = Len(s) THEN [Type |-> "String", Value |-> acc, pos |-> p + 1]
        ELSE IF s[p + 1] = chLF THEN StringEnd(s, p + 2, delim, acc)
        ELSE escaped(consumeEscapedCP(s, [NewTokenizer EXCEPT !.pos = p + 1]))
    ELSE StringEnd(s, p + 1, delim, Append(acc, s[p]))

\* C11: a call that starts at a quote returns String when the matching
\* delimiter (which it consumes) or the end of the input ends the body, and
\* BadString when an unescaped LF does, leaving the LF unread; the Value is
\* the decoded body, to which a backslash-LF and a backslash that ends the
\* input add nothing; the call after a BadString returns S "\n".
C11_StringEnds ==
    [][ /\ At(stream, z.pos) \in {chDQUOTE, chSQUOTE} =>
               LET e == StringEnd(stream, z.pos + 1, stream[z.pos], <<>>) IN
               /\ tok'.Type = e.Type
               /\ tok'.Value = e.Value
               /\ z'.pos = e.pos
               /\ tok'.Type = "String" =>
                      \/ z'.pos = Len(stream) + 1
                      \/ stream[z'.pos - 1] = stream[z.pos]
               /\ tok'.Type = "BadString" => At(stream, z'.pos) = chLF
        /\ (calls > 0 /\ tok.Type = "BadString") =>
               /\ tok' = Token("S", <<chLF>>, NoExtra)
               /\ start' = z.pos ]_vars

\* the S token after a BadString whose body held a backslash-LF
C11_Witness ==
    /\ calls = 2
    /\ tok = Token("S", <<chLF>>, NoExtra)
    /\ Len(stream) >= 6
    /\ SubSeq(stream, 1, 4) = <<chDQUOTE, chLowerA, chBACKSLASH, chLF>>
    /\ start = 6
    /\ stream[5] = chLowerA

(***************************************************************************)
(* Properties of the normalizer under SpecTransform.                       *)
(***************************************************************************)
\* x with CR LF, CR and LF each replaced by one LF and NUL by EF BF BD,
\* byte by byte: an LF that follows a CR gives nothing
RefNormalize(x) ==
    Flatten([k \in 1..Len(x) |->
                IF x[k] = chCR THEN <<chLF>>
                ELSE IF x[k] = chLF THEN
                     IF k > 1 /\ x[k - 1] = chCR THEN <<>> ELSE <<chLF>>
                ELSE IF x[k] = 0 THEN <<239, 191, 189>>
                ELSE <<x[k]>>])

\* C12: however the source is cut into calls, the outputs written since
\* the last Reset are, concatenated, the normalization of the source
\* consumed since then; a call with a destination of at least 4 bytes
\* consumes at least one byte, and a call returns no error exactly when it
\* consumed all it was offered.
C12_Normalize ==
    /\ written = RefNormalize(consumed)
    /\ written = TransformAll(consumed, 1, 0)
    /\ (ret.dstLen >= 4 /\ ret.src # <<>>) => ret.nSrc > 0
    /\ ret.src # <<>> => (ret.err = "nil" <=> ret.nSrc = Len(ret.src))

\* a CR ended one call, the LF after it began the next: one LF is written
C12_Witness ==
    /\ consumed = <<chLowerA, chCR, chLF>>
    /\ ret.src = <<chLF>>
    /\ ret.nSrc = 1
    /\ written = <<chLowerA, chLF>>

\* C13: a call stops at a NUL, leaving it unconsumed, only when fewer than
\* three bytes are free in the destination.
C13_ShortDst ==
    (ret.nSrc < Len(ret.src) /\ ret.src[ret.nSrc + 1] = 0) =>
        /\ ret.err = "ErrShortDst"
        /\ ret.dstLen - ret.nDst < 3
\* C14: once the source fails with an error that is not the end of the input,
\* the call of Next() in which the failure occurs returns an Error token
\* whose Extra carries the error, and Err() returns it; every later call
\* returns an Error token with the same cause and leaves the tokenizer where
\* it is; the failure occurs at the latest in the call after the last byte.
C14_StickyError ==
    [][ z.srcErr # "EOF" =>
          /\ (z.err = "nil" /\ z'.err # "nil") =>
                /\ z'.err = z.srcErr
                /\ tok'.Type = "Error"
                /\ tok'.Extra = TokenExtraError(z.srcErr)
          /\ z.err # "nil" =>
                /\ tok'.Type = "Error"
                /\ tok'.Extra = TokenExtraError(z.err)
                /\ z' = z
          /\ calls' > Len(stream) => tok'.Type = "Error" ]_vars

C14_Witness ==
    /\ calls >= 3
    /\ z.err = ErrUnexpectedEOF
    /\ tok = Token("Error", ErrorText(ErrUnexpectedEOF), TokenExtraError(ErrUnexpectedEOF))
    /\ z.pos > 1
    /\ z.pos <= Len(stream)

\* C15 as stated: after Next() returns a token that carries an error extra,
\* Err() returns the error of the extra; and after a first token that is
\* neither EOF nor a token with an error extra, Err() is nil.  z.err holds
\* an error of the reader (lines 59, 398, 806, 809) and the extra of a
\* BadString or BadURI token a *ParseError, which are never the same value.
C15_ErrIsTokenError ==
    calls > 0 =>
      /\ tok.Extra.kind = "error" =>
            IF tok.Type = "Error" THEN z.err = tok.Extra.Err ELSE FALSE
      /\ (calls = 1 /\ tok.Type # "EOF" /\ tok.Extra.kind # "error") => z.err = "nil"

\* C15, amended: Err() is the end the reader has reported so far: nil, io.EOF
\* or the error the source failed with.  After an Error token it is the
\* error in the token's Extra, after an EOF token it is io.EOF, and after a
\* BadEscape, BadString or BadURI token it is nil or io.EOF, never the parse
\* error; while it is nil, no Error and no EOF token has been returned.
C15_ErrIsReadError ==
    calls > 0 =>
      /\ z.err \in {"nil", z.srcErr}
      /\ tok.Type = "Error" <=> Panicking(z)
      /\ tok.Type = "Error" => tok.Extra = TokenExtraError(z.err)
      /\ tok.Type = "EOF" => z.err = "EOF"
      /\ tok.Type \in {"BadEscape", "BadString", "BadURI"} => z.err \in {"nil", "EOF"}

\* a BadString token in the middle of the input, Err() nil
C15_Witness ==
    /\ calls = 1
    /\ tok.Type = "BadString"
    /\ tok.Extra.kind = "error"
    /\ z.err = "nil"
    /\ z.pos <= Len(stream)

\* the end of the maximal run of LF, tab and space that starts at p
RunEnd(s, p) ==
    CHOOSE e \in p..(Len(s) + 1) :
        /\ \A k \in p..(e - 1) : s[k] \in {chLF, chTAB, chSPACE}
        /\ e = Len(s) + 1 \/ s[e] \notin {chLF, chTAB, chSPACE}

\* C16: a call of Next() that starts at LF, tab or space consumes the whole
\* run of such bytes, however long, and returns an S token whose Value is
\* LF when the run holds an LF and a space otherwise; an S token is never
\* followed by an S token.
C16_WhitespaceRun ==
    [][ /\ At(stream, z.pos) \in {chLF, chTAB, chSPACE} =>
              LET e == RunEnd(stream, z.pos) IN
              /\ z'.pos = e
              /\ tok' = Token("S", IF \E k \in z.pos..(e - 1) : stream[k] = chLF
                                   THEN <<chLF>> ELSE <<chSPACE>>, NoExtra)
        /\ (calls > 0 /\ tok.Type = "S") => tok'.Type # "S" ]_vars

\* a run of 34 bytes whose only LF is the last byte, then a letter
C16_Witness ==
    /\ calls = 1
    /\ Len(stream) = MaxRunLen + 1
    /\ stream[MaxRunLen] = chLF
    /\ \A k \in 1..(MaxRunLen - 1) : stream[k] = chSPACE
    /\ tok = Token("S", <<chLF>>, NoExtra)
    /\ z.pos = MaxRunLen + 1

\* the call r made at position p and the call f of a fresh tokenizer on the
\* input that is unread at p return the same and consume the same bytes
SameStep(r, f, p) ==
    /\ r.panicked = f.panicked
    /\ ~r.panicked => r.tok = f.tok
    /\ r.z.pos - p = f.z.pos - 1
    /\ r.z.err = f.z.err

\* C17: as long as the end of the input has not been reached, the next call
\* returns the token, and consumes the bytes, that the first call of a fresh
\* tokenizer on the unread rest of the normalized input does, also after
\* BadEscape, BadString and BadURI; each token starts where the token before
\* ended and is at least one byte long.
C17_NoHiddenState ==
    /\ z.err = "nil" =>
          SameStep(Scan(stream, z, tok),
                   Scan(Drop(stream, z.pos - 1), NewTokenizer, ZeroToken), z.pos)
    /\ start <= z.pos
    /\ (calls > 0 /\ tok.Type # "EOF") => start < z.pos
    /\ z.err = "EOF" => z.pos = Len(stream) + 1

\* a second token that is a Bad token and ends in the middle of the input
C17_Witness ==
    /\ calls = 2
    /\ z.err = "nil"
    /\ start > 1
    /\ z.pos <= Len(stream)
    /\ tok.Type \in {"BadEscape", "BadString", "BadURI"}

\* w has the form [+-]? digit* ('.' digit+)? ([eE] [+-]? digit+)?
MatchesNumber(w) ==
    \E a \in 0..Min(1, Len(w)) : \E d \in a..Len(w) : \E f \in d..Len(w) :
        /\ a = 1 => w[1] \in {chPLUS, chMINUS}
        /\ \A k \in (a + 1)..d : isDigit(w[k])
        /\ \/ f = d
           \/ /\ f >= d + 2
              /\ w[d + 1] = chDOT
              /\ \A k \in (d + 2)..f : isDigit(w[k])
        /\ \/ f = Len(w)
           \/ /\ w[f + 1] \in {chLowerE, chUpperE}
              /\ \E g \in {f + 1, f + 2} :
                    /\ g < Len(w)
                    /\ g = f + 2 => w[f + 2] \in {chPLUS, chMINUS}
                    /\ \A k \in (g + 1)..Len(w) : isDigit(w[k])

\* the end of the longest prefix of that form of the input from p on
NumberEnd(s, p) ==
    CHOOSE e \in p..(Len(s) + 1) :
        /\ MatchesNumber(SubSeq(s, p, e - 1))
        /\ \A e2 \in (e + 1)..(Len(s) + 1) : ~MatchesNumber(SubSeq(s, p, e2 - 1))

\* C18: a Number, Percentage or Dimension token has as Value, sign included,
\* the longest prefix of the form [+-]? digit* ('.' digit+)? ([eE] [+-]?
\* digit+)? of the input at which the call started; NonInteger tells whether
\* that prefix has a fraction or an exponent; a '.' after the prefix is left
\* in the stream, and an 'e' or 'E' after it starts the unit of a Dimension.
\* A call that starts at a digit returns such a token.
C18_NumericPrefix ==
    [][ /\ isDigit(At(stream, z.pos)) => tok'.Type \in {"Number", "Percentage", "Dimension"}
        /\ tok'.Type \in {"Number", "Percentage", "Dimension"} =>
              LET e == NumberEnd(stream, z.pos)
                  w == SubSeq(stream, z.pos, e - 1)
              IN /\ tok'.Value = w
                 /\ tok'.Extra.NonInteger =
                        (\E k \in 1..Len(w) : w[k] \in {chDOT, chLowerE, chUpperE})
                 /\ tok'.Type = "Number" => z'.pos = e
                 /\ tok'.Type = "Dimension" =>
                        /\ z'.pos > e
                        /\ tok'.Extra.Dimension =  SubSeq(stream, e, z'.pos - 1)
                 /\ At(stream, e) = chDOT => tok'.Type = "Number"
                 /\ At(stream, e) \in {chLowerE, chUpperE} => tok'.Type = "Dimension" ]_vars

\* "-1.1e" gives the Dimension -1.1 with the unit e
C18_Witness ==
    /\ calls = 1
    /\ stream = <<chMINUS, chZERO + 1, chDOT, chZERO + 1, chLowerE>>
    /\ tok = Token("Dimension", <<chMINUS, chZERO + 1, chDOT, chZERO + 1>>,
                   TokenExtraNumeric(TRUE, <<chLowerE>>))

\* C19: a call that starts at '#' returns, when a name code byte or a
\* backslash that no LF follows comes next, a Hash token with a non-empty
\* Value (the bytes consumed after '#' when they hold no escape) whose
\* IsIdentifier tells whether the three bytes after '#' start an identifier;
\* otherwise it returns Delim "#" and consumes that one byte.
C19_Hash ==
    [][ (z.err = "nil" /\ At(stream, z.pos) = chHASH) =>
          LET b1 == At(stream, z.pos + 1)
              b2 == At(stream, z.pos + 2)
              b3 == At(stream, z.pos + 3)
              escape(x, y) == x = chBACKSLASH /\ y # chLF
              identifier == IF b1 = chMINUS THEN isNameStart(b2) \/ escape(b2, b3)
                            ELSE isNameStart(b1) \/ escape(b1, b2)
          IN IF isNameCode(b1) \/ escape(b1, b2)
             THEN /\ tok'.Type = "Hash"
                  /\ tok'.Value # <<>>
                  /\ tok'.Extra = TokenExtraHash(identifier)
                  /\ z'.pos > z.pos + 1
                  /\ (\A k \in (z.pos + 1)..(z'.pos - 1) : stream[k] # chBACKSLASH)
                        => tok'.Value = SubSeq(stream, z.pos + 1, z'.pos - 1)
             ELSE /\ tok' = Token("Delim", <<chHASH>>, NoExtra)
                  /\ z'.pos = z.pos + 1 ]_vars

\* "#1a" gives the unrestricted Hash 1a
C19_Witness ==
    /\ calls = 1
    /\ stream = <<chHASH, chZERO + 1, chLowerA>>
    /\ tok = Token("Hash", <<chZERO + 1, chLowerA>>, TokenExtraHash(FALSE))

\* the position after the first ')' at or after q that is not escaped, or
\* the end of the input
RECURSIVE BadEnd(_, _)
BadEnd(s, q) ==
    IF q > Len(s) THEN Len(s) + 1
    ELSE IF s[q] = chRPAREN THEN q + 1
    ELSE IF s[q] = chBACKSLASH /\ At(s, q + 1) # chLF
    THEN BadEnd(s, consumeEscapedCP(s, [NewTokenizer EXCEPT !.pos = q + 1]).z.pos)
    ELSE BadEnd(s, q + 1)

\* an unquoted body read from q on, acc decoded so far: the type of the
\* token, the Value of a URI, and the position after the token
RECURSIVE RefURL(_, _, _)
RefURL(s, q, acc) ==
    LET escaped(e) == RefURL(s, e.z.pos, acc \o EncodeRune(e.cp))
        closed(r) ==
            IF r > Len(s) THEN [Type |-> "URI", Value |-> acc, pos |-> Len(s) + 1]
            ELSE IF s[r] = chRPAREN THEN [Type |-> "URI", Value |-> acc, pos |-> r + 1]
            ELSE [Type |-> "BadURI", Value |-> acc, pos |-> BadEnd(s, r), rest |-> r]
    IN IF q > Len(s) THEN closed(q)
       ELSE IF s[q] = chRPAREN THEN closed(q)
       ELSE IF s[q] \in {chLF, chTAB, chSPACE} THEN closed(RunEnd(s, q))
       ELSE IF s[q] \in {chDQUOTE, chSQUOTE, chLPAREN} \/ isNonPrintable(s[q])
       THEN [Type |-> "BadURI", Value |-> acc, pos |-> BadEnd(s, q + 1), rest |-> q + 1]
       ELSE IF s[q] = chBACKSLASH THEN
           IF At(s, q + 1) = chLF
           THEN [Type |-> "BadURI", Value |-> acc, pos |-> BadEnd(s, q), rest |-> q]
           ELSE escaped(consumeEscapedCP(s, [NewTokenizer EXCEPT !.pos = q + 1]))
       ELSE RefURL(s, q + 1, Append(acc, s[q]))

\* the first byte after "url(" at p and the whitespace that follows it
BodyStart(s, p) == IF At(s, p + 4) \in {chLF, chTAB, chSPACE} THEN RunEnd(s, p + 4) ELSE p + 4

\* C20: a call that starts at "url(" with an unquoted body returns URI, the
\* Value being the decoded body without the whitespace around it, when
\* optional whitespace and then ')' or the end of the input follow the body;
\* it returns BadURI when the body holds an unescaped quote, '(' or
\* non-printable byte, a backslash before LF, or whitespace that something
\* other than ')' or the end of the input follows; either token ends after
\* the first unescaped ')' or at the end of the input.
C20_UnquotedURL ==
    [][ ( /\ z.err = "nil"
          /\ SubSeq(stream, z.pos, Min(z.pos + 3, Len(stream))) = urlOpen
          /\ At(stream, BodyStart(stream, z.pos)) \notin {chDQUOTE, chSQUOTE} ) =>
          LET ref == RefURL(stream, BodyStart(stream, z.pos), <<>>) IN
          /\ tok'.Type = ref.Type
          /\ z'.pos = ref.pos
          /\ tok'.Type = "URI" => tok'.Value = ref.Value /\ tok'.Extra = NoExtra
          /\ tok'.Type = "BadURI" => tok'.Extra.kind = "error"
          /\ z'.pos = Len(stream) + 1 \/ stream[z'.pos - 1] = chRPAREN ]_vars

\* "url( a )a": the URI a, and the letter after it is left in the stream
C20_Witness ==
    /\ calls = 1
    /\ stream = urlOpen \o <<chSPACE, chLowerA, chSPACE, chRPAREN, chLowerA>>
    /\ tok = Token("URI", <<chLowerA>>, NoExtra)
    /\ z.pos = Len(stream)

\* the bytes from q up to the first unescaped ')' or the end of the input,
\* every valid escape decoded and every backslash before LF left out
RECURSIVE BadRest(_, _, _)
BadRest(s, q, acc) ==
    LET escaped(e) == BadRest(s, e.z.pos, acc \o EncodeRune(e.cp))
    IN IF q > Len(s) THEN acc
       ELSE IF s[q] = chRPAREN THEN acc
       ELSE IF s[q] = chBACKSLASH THEN
           IF At(s, q + 1) = chLF THEN BadRest(s, q + 1, acc)
           ELSE escaped(consumeEscapedCP(s, [NewTokenizer EXCEPT !.pos = q + 1]))
       ELSE BadRest(s, q + 1, Append(acc, s[q]))

\* C21: a BadURI token of an unquoted url( ends after the next unescaped ')'
\* or at the end of the input, and its Value is the body read before the
\* recovery followed by the bytes up to that ')' with every valid escape
\* decoded and every backslash before LF dropped.
C21_BadURLRecovery ==
    [][ ( /\ z.err = "nil"
          /\ SubSeq(stream, z.pos, Min(z.pos + 3, Len(stream))) = urlOpen
          /\ At(stream, BodyStart(stream, z.pos)) \notin {chDQUOTE, chSQUOTE}
          /\ tok'.Type = "BadURI" ) =>
          LET ref == RefURL(stream, BodyStart(stream, z.pos), <<>>) IN
          /\ z'.pos = ref.pos
          /\ tok'.Value = ref.Value \o BadRest(stream, ref.rest, <<>>) ]_vars

\* how many bytes of the set S follow one another in s from p on, max at most
CountRun(s, p, max, S) ==
    CHOOSE k \in 0..max :
        /\ \A j \in 0..(k - 1) : At(s, p + j) \in S
        /\ k = max \/ At(s, p + k) \notin S

EscapeAfterBackslash == consumeEscapedCP(stream, [NewTokenizer EXCEPT !.pos = 2])

\* C23: called after a backslash, the escape consumer returns U+FFFD at the
\* end of the input; at a hex digit it consumes the hex digits, six at most,
\* and one LF, tab or space after them, and returns their value, or U+FFFD
\* for 0 and for values above U+10FFFF, any other byte after the digits
\* staying in the stream; at any other byte it consumes and returns the
\* UTF-8 code point that starts there.  The first call of Next() reads at
\* least as far, unless the backslash stands before LF.
C23_EscapedCP ==
    stream[1] = chBACKSLASH =>
        LET hex == {c \in 1..127 : isHexDigit(c)}
            h == CountRun(stream, 2, 6, hex)
            v == HexNum(SubSeq(stream, 2, 1 + h), 0)
            d == DecodeRune(Drop(stream, 1))
            ref == IF Len(stream) = 1 THEN [cp |-> 65533, pos |-> 2]
                   ELSE IF h > 0 THEN
                       [cp |-> IF v = 0 \/ v > 1114111 THEN 65533 ELSE v,
                        pos |-> IF At(stream, 2 + h) \in {chLF, chTAB, chSPACE}
                                THEN 3 + h ELSE 2 + h]
                   ELSE [cp |-> d.ru, pos |-> 2 + d.size]
        IN /\ EscapeAfterBackslash.cp = ref.cp
           /\ EscapeAfterBackslash.z.pos = ref.pos
           /\ (calls > 0 /\ At(stream, 2) # chLF) => z.pos >= ref.pos

\* six digits that denote a value above U+10FFFF, then a seventh hex digit:
\* the Ident is U+FFFD followed by that digit
C23_Witness ==
    /\ calls = 1
    /\ stream = <<chBACKSLASH, chLowerA, chLowerA, chLowerA, chLowerA, chLowerA, chLowerA,
                  chLowerA>>
    /\ EscapeAfterBackslash.cp = RuneError
    /\ EscapeAfterBackslash.z.pos = 8
    /\ tok = Token("Ident", <<239, 191, 189, chLowerA>>, NoExtra)

\* str is "url" in any ASCII case
IsUrl(str) ==
    /\ Len(str) = 3
    /\ str[1] \in {chLowerU, chUpperU}
    /\ str[2] \in {chLowerR, chLowerR - 32}
    /\ str[3] \in {chLowerL, chLowerL - 32}

\* what the URL consumer returns when it is called at position p
URLAt(s, p) == consumeURL(s, [NewTokenizer EXCEPT !.pos = p])

\* the name consumer's result and the URL consumer's result agree with the
\* call that ends in zn with the token t
IdentishResult(nm, url, t, zn) ==
    IF At(stream, nm.z.pos) = chLPAREN THEN
        IF IsUrl(nm.str)
        THEN t = url.tok /\ zn.pos = url.z.pos /\ t.Type \in {"URI", "BadURI"}
        ELSE t = Token("Function", nm.str, NoExtra) /\ zn.pos = nm.z.pos + 1
    ELSE t = Token("Ident", nm.str, NoExtra) /\ zn.pos = nm.z.pos

\* C24: a call that starts at a name-start byte that opens no unicode range,
\* or at a valid escape, consumes a name; with '(' right after the name it
\* consumes the '(' and returns Function, or what the URL consumer returns
\* when the name is "url" in any ASCII case, however it is spelled; otherwise
\* it returns Ident and leaves the next byte unread.  No Function token has
\* the Value "url" in any case, and the name of the token starts with the
\* byte the call started at when that byte is 'U' or 'u'.
C24_Identish ==
    [][ /\ ( /\ z.err = "nil"
             /\ \/ /\ isNameStart(At(stream, z.pos))
                   /\ ~ ( /\ At(stream, z.pos) \in {chUpperU, chLowerU}
                          /\ At(stream, z.pos + 1) = chPLUS
                          /\ \/ isHexDigit(At(stream, z.pos + 2))
                             \/ At(stream, z.pos + 2) = chQMARK )
                \/ /\ At(stream, z.pos) = chBACKSLASH
                   /\ At(stream, z.pos + 1) # chLF ) =>
              /\ IdentishResult(consumeName(stream, [NewTokenizer EXCEPT !.pos = z.pos]),
                                URLAt(stream,
                                      consumeName(stream,
                                                  [NewTokenizer EXCEPT !.pos = z.pos]).z.pos + 1),
                                tok', z')
              /\ (At(stream, z.pos) \in {chUpperU, chLowerU} /\ tok'.Type \in {"Ident", "Function"})
                    => tok'.Value[1] = stream[z.pos]
        /\ tok'.Type = "Function" => ~IsUrl(tok'.Value) ]_vars

\* "\75rl(a)" is the URI a
C24_Witness ==
    /\ calls = 1
    /\ stream = <<chBACKSLASH, chZERO + 7, chZERO + 5, chLowerR, chLowerL,
                  chLPAREN, chLowerA, chRPAREN>>
    /\ tok = Token("URI", <<chLowerA>>, NoExtra)
    /\ z.pos = Len(stream) + 1

\* the comment "/**/" the renderer puts between two tokens
EmptyComment == <<chSLASH, chSTAR, chSTAR, chSLASH>>

\* the pairs of token kinds (previous, current) between which a comment is
\* required
TypeRule(p, c) ==
    \/ /\ p \in {"Ident", "AtKeyword", "Hash", "Dimension"}
       /\ c \in {"Ident", "Function", "URI", "BadURI", "Number", "Percentage",
                 "Dimension", "UnicodeRange", "CDC"}
    \/ /\ p = "Number"
       /\ c \in {"Ident", "Function", "URI", "BadURI", "Number", "Percentage",
                 "Dimension", "UnicodeRange"}
    \/ /\ p = "UnicodeRange"
       /\ c \in {"Ident", "Function", "Number", "Percentage", "Dimension"}

\* C25: when the renderer writes a token that is not a Delim after a
\* previous token that is not a Delim (or after nothing), it writes "/**/"
\* and then the token's text if the pair of kinds is in the table, and the
\* token's text alone if it is not or if the token is the first one.
C25_TypeKeyedComments ==
    [][ (pc = "render" /\ nw' = nw + 1 /\ tokens[nw + 1].Type \notin {"Comment", "Delim"}
         /\ wr.Type # "Delim")
        => rerenderBuf' = rerenderBuf
                          \o (IF TypeRule(wr.Type, tokens[nw + 1].Type)
                              THEN EmptyComment ELSE <<>>)
                          \o WriteTo(tokens[nw + 1]) ]_vars

\* "a/**/-->" was tokenized and rendered again as "a/**/-->": the comment
\* of the source is dropped and a new one is written before the CDC
C25_Witness ==
    /\ pc = "render"
    /\ nw = 3
    /\ tokens[1].Type = "Ident"
    /\ tokens[3].Type = "CDC"
    /\ rerenderBuf = <<chLowerA>> \o EmptyComment \o <<chMINUS, chMINUS, chGT>>

\* t is the delimiter token of the character c
IsDelim(t, c) == t.Type = "Delim" /\ t.Value = <<c>>

\* the pairs of tokens (previous, current) between which a comment is
\* required because of a delimiter
DelimRule(p, c) ==
    \/ /\ IsDelim(p, chMINUS)
       /\ c.Type \in {"Ident", "Function", "URI", "BadURI", "Number", "Percentage",
                      "Dimension", "UnicodeRange"}
    \/ /\ IsDelim(p, chAT)
       /\ \/ c.Type \in {"Ident", "Function", "URI", "BadURI", "UnicodeRange"}
          \/ IsDelim(c, chMINUS)
    \/ /\ IsDelim(p, chDOT) \/ IsDelim(p, chPLUS)
       /\ c.Type \in {"Number", "Percentage", "Dimension"}
    \/ /\ \E d \in {chDOLLAR, chSTAR, chCARET, chTILDE, chPIPE} : IsDelim(p, d)
       /\ IsDelim(c, chEQ)
    \/ IsDelim(p, chPIPE) /\ IsDelim(c, chPIPE)
    \/ IsDelim(p, chSLASH) /\ IsDelim(c, chSTAR)
    \/ /\ p.Type \in {"Ident", "AtKeyword", "Hash", "Dimension"}
       /\ IsDelim(c, chMINUS)
    \/ p.Type = "Ident" /\ c.Type = "OpenParen"
    \/ p.Type = "UnicodeRange" /\ IsDelim(c, chQMARK)

\* C26: when the renderer writes a token after a previous token and the
\* pair is one of the delimiter-keyed pairs, it writes "/**/" and then the
\* token's text.
C26_DelimKeyedComments ==
    [][ (pc = "render" /\ nw' = nw + 1 /\ tokens[nw + 1].Type # "Comment"
         /\ DelimRule(wr, tokens[nw + 1]))
        => rerenderBuf' = rerenderBuf \o EmptyComment \o WriteTo(tokens[nw + 1]) ]_vars

\* the source was one token of one of the kinds, it was rendered, and the
\* verifier has not failed on the rendering and has met no comment in it
RoundTrip(kinds) ==
    (nw = 1 /\ Len(tokens) = 1 /\ tokens[1].Type \in kinds)
    => (pc # "panic" /\ tok2.Type # "Comment")

\* C27: when the source is one Ident, AtKeyword or Hash token, the
\* tokenizer reads from its rendering one token of the same type, Value
\* and IsIdentifier flag and then EOF.
C27_NameRoundTrip == RoundTrip({"Ident", "AtKeyword", "Hash"})

\* C28: when the source is one String token or one URI token, the
\* tokenizer reads from its rendering one token of the same type and Value
\* and then EOF.
C28_StringRoundTrip == RoundTrip({"String", "URI"})

\* C29: when the source is one Dimension token, the tokenizer reads from
\* its rendering one Dimension token with the same Value, NonInteger flag
\* and unit and then EOF.
C29_DimensionRoundTrip == RoundTrip({"Dimension"})

\* the bytes the renderer writes for the tokens ts from the k-th on, after
\* the token last
RECURSIVE Rendered(_, _, _)
Rendered(ts, k, last) ==
    IF k > Len(ts) THEN <<>>
    ELSE WriteTokenTo(last, ts[k]) \o Rendered(ts, k + 1, ts[k])

\* the second tokenizer's next call when it reads the whole rendering from
\* a buffer
Buffered == Scan(Normalized(Rendered(tokens, 1, ZeroToken)),
                 [z2 EXCEPT !.srcErr = "EOF"], tok2)

\* every call of the second tokenizer that returns while it reads from the
\* pipe returns what the call on the buffered rendering returns, and the
\* verifier draws the same conclusion from it
SameAsBuffered ==
    [][ (pc = "retokenize" /\ <<z2, tok2, i, pc, fuzzPanic>>' # <<z2, tok2, i, pc, fuzzPanic>>)
        => /\ tok2' = Buffered.tok
           /\ z2'.pos = Buffered.z.pos
           /\ z2'.err = Buffered.z.err
           /\ fuzzPanic' = FuzzVerdict(Buffered, tokens, SkipComments(tokens, i)) ]_vars

\* the pipe is in use: the goroutine is started and the writer has not
\* closed the pipe or Fuzz has not come to its end with pr.Close()
PipeInUse == wpc # "idle" /\ ~(wpc = "exit" /\ pc \in {"done", "panic"} /\ prClosed)

\* one of the two goroutines can take a step: the writer is not inside
\* pw.Write, or the call of Next() has the bytes it asks for, or it waits
\* and there is a write to take, or Fuzz is about to close the read end
NotStuck ==
    \/ wpc \in {"loop", "token", "more"}
    \/ pc = "retokenize" /\ (wpc = "write" \/ ~Waits(Scan(restream, PipeTokenizer, tok2)))
    \/ pc \in {"done", "panic"} /\ ~prClosed

\* C30: while the pipe is in use one of the two goroutines can always take
\* a step, for every interleaving and every cut of the tokens' texts into
\* writes, also after pr.Close(); no behaviour takes steps for ever; so
\* with both goroutines scheduled the writer ends up having closed the pipe
\* and Fuzz at its end or in a panic with the read end closed.  Fuzz comes
\* to its end (EOF from the second tokenizer) only after pw.Close(), and
\* every token the second tokenizer returns on the way is the token it
\* returns on the fully buffered rendering.
C30_Pipe ==
    /\ [](PipeInUse => NotStuck)
    /\ <>[][FALSE]_vars
    /\ [](pc = "done" /\ wpc # "idle" => wpc = "exit")
    /\ SameAsBuffered

\* two tokens were rendered; Fuzz has panicked on what the second tokenizer
\* returned and has closed the read end when only a part of the rendering
\* had been read, and the writer has run to its end after that
C30_Witness ==
    /\ wpc = "exit"
    /\ prClosed
    /\ pc = "panic"
    /\ Len(tokens) = 2
    /\ Len(restream) < Len(rerenderBuf)

====
